---- MODULE Spec2Model ----
(***************************************************************************)
(* A state-machine model of the Cytomine project migrator:                 *)
(*   - Importer (cytomineprojectmigrator/importer.py): Importer.run and    *)
(*     the import_* phases it calls, against a target Cytomine server;     *)
(*   - Exporter (cytomineprojectmigrator/exporter.py): Exporter.run and    *)
(*     the export_* steps it calls, against a source Cytomine server.      *)
(* Identifiers are naturals, None is 0.  A name is a sequence of tokens:   *)
(* f"{name} ({i})" appends the token of i.  A file name is a sequence of   *)
(* characters, "E9" standing for one non-ASCII character.                  *)
(***************************************************************************)
EXTENDS Integers, Sequences, FiniteSets, TLC

\* ------------------------------------------------------------------ bounds
\* Largest number of image instances in a snapshot.
MaxImages == 2
\* Largest number of user annotations in a snapshot.
MaxAnnots == 2
\* Largest number of gateway calls that raise (network errors) in one run.
MaxFaults == 1
\* Largest number of import runs of one snapshot into one target.
MaxRuns == 2

\* ------------------------------------------------------- program constants
\* Python's None (and every falsy identifier).
None == 0
\* Polling attempts allowed per expected image.
AttemptsPerImage == 5
\* Seconds slept between polling attempts.
PollInterval == 5
\* n_new_images before the first query.
NoCountYet == -1

\* ------------------------------------------------------------ list helpers
InList(x, l) == \E k \in 1..Len(l) : l[k] = x

Range(l) == {l[k] : k \in 1..Len(l)}

\* find_first that finds nothing.
find_first_none(l) == <<>>

\* find_first, with the result as a list of at most one item (<<>> is None).
find_first(l) == IF Len(l) > 0 THEN <<l[1]>> ELSE <<>>

\* list.pop(): the last item and the rest.
PopItem(l) == l[Len(l)]

\* A pop that leaves the item in the list.
PopRestKept(l) == l

PopRest(l) == SubSeq(l, 1, Len(l) - 1)

RECURSIVE SeqOfSet(_)
SeqOfSet(S) ==
    IF S = {} THEN <<>>
    ELSE LET m == CHOOSE x \in S : \A y \in S : x <= y
         IN <<m>> \o SeqOfSet(S \ {m})

\* ------------------------------------------------------------ conversions
\* bytes(name, "utf-8").decode("ascii", "ignore"): drops non-ASCII characters.
AsciiIgnore(name) == SelectSeq(name, LAMBDA c : c # "E9")

\* name.replace("/", "-")
ReplaceSlash(name) == [k \in 1..Len(name) |-> IF name[k] = "/" THEN "-" ELSE name[k]]

\* name.strip(): a name is a token sequence, " " the whitespace token.
RECURSIVE StripLeft(_)
StripLeft(name) ==
    IF Len(name) > 0 /\ name[1] = " " THEN StripLeft(Tail(name)) ELSE name

RECURSIVE StripRight(_)
StripRight(name) ==
    IF Len(name) > 0 /\ name[Len(name)] = " "
    THEN StripRight(SubSeq(name, 1, Len(name) - 1)) ELSE name

Strip(name) == StripRight(StripLeft(name))

\* f"{name} ({i})"
Suffixed(name, n) == Append(name, ToString(n))

\* --------------------------------------------------------- the id mapping
\* self.id_mapping[key] = value on a plain dict: inserts or silently replaces.
Put(m, key, value) ==
    [x \in DOMAIN m \cup {key} |-> IF x = key THEN value ELSE m[x]]

\* key in id_mapping.keys()
Has(m, key) == key \in DOMAIN m

\* id_mapping[key] for every key of keys: whether one of them raises
\* KeyError.
MissingNever(m, keys) == FALSE

Missing(m, keys) == \E key \in keys : ~Has(m, key)

\* id_mapping[key]: the value (None stands for the KeyError that Missing
\* tells of).
Get(m, key) == IF Has(m, key) THEN m[key] ELSE None

\* What a write looked like: the key, what it held before (None if absent).
PutRecord(m, key, value) ==
    [key |-> key, had |-> Has(m, key),
     old |-> IF Has(m, key) THEN m[key] ELSE None, new |-> value]

EmptyMapping == [x \in {} |-> None]

\* =================================================================== data
\* Origin identifiers live in disjoint ranges per entity type, as the source
\* server draws every identifier from one sequence: users 1..9, the ontology
\* 10, terms 11..19, the project 20, image instances 31.., abstract images
\* 41.., annotations 51...  The identifiers 9, 19, 39 and 99 belong to no
\* entity of a snapshot.
UserIds == {1, 2}

IsUserId(k) == k \in 1..9

IsOntologyId(k) == k \in 10..19

IsProjectId(k) == k \in 20..29

IsImageId(k) == k \in 30..49

\* One remote image instance, as a document of imageinstance-collection.json.
RemoteImage(id, kind) ==
    [id |-> id, baseImage |-> kind.baseImage,
     originalFilename |-> kind.originalFilename, dims |-> kind.dims,
     user |-> kind.user, reviewUser |-> kind.reviewUser]

\* The image instances a snapshot draws from.  Two of them carry the file
\* name "a"; the third differs from it by a non-ASCII character only; the
\* fourth holds a path separator.  Instances of one kind share their
\* abstract image.
ImageKinds ==
    { [baseImage |-> 41, originalFilename |-> <<"a">>, dims |-> 1,
       user |-> 1, reviewUser |-> None],
      [baseImage |-> 42, originalFilename |-> <<"a">>, dims |-> 1,
       user |-> 2, reviewUser |-> 1],
      [baseImage |-> 43, originalFilename |-> <<"E9", "a">>, dims |-> 1,
       user |-> 1, reviewUser |-> None],
      [baseImage |-> 44, originalFilename |-> <<"a", "/", "b">>, dims |-> 1,
       user |-> 1, reviewUser |-> None] }

\* The k-th image of the plain snapshot: own abstract image, plain file name.
PlainKind(k) ==
    [baseImage |-> 44 + k, originalFilename |-> <<"a">>, dims |-> 1,
     user |-> IF k % 2 = 1 THEN 1 ELSE 2,
     reviewUser |-> IF k % 2 = 1 THEN None ELSE 1]

PlainKinds(n) == [k \in 1..n |-> PlainKind(k)]

KindSeqs == UNION {[1..n -> ImageKinds] : n \in 0..MaxImages}

\* One annotation: the image it is drawn on (by position) and its creator.
AnnotProfiles(n) == {[image |-> im, user |-> u] : im \in 1..n, u \in UserIds}

ProfileKey(p) == 10 * p.image + p.user

\* Annotation lists up to order: the tasks of a batch run in any order.
ProfileSeqs(n) ==
    UNION { {ps \in [1..m -> AnnotProfiles(n)] :
                \A k \in 1..(m - 1) : ProfileKey(ps[k]) <= ProfileKey(ps[k + 1])}
            : m \in 0..MaxAnnots }

\* Annotations of the snapshots that vary their images: one per image.
PlainProfiles(n) ==
    [k \in 1..(IF n < MaxAnnots THEN n ELSE MaxAnnots) |->
        [image |-> k, user |-> IF k % 2 = 1 THEN 1 ELSE 2]]

RemoteAnnotation(id, p) ==
    LET term == IF p.user = 1 THEN <<11>> ELSE <<11, 12>>
    IN [id |-> id, project |-> 20, image |-> 30 + p.image, user |-> p.user,
        term |-> term,
        userByTerm |-> [k \in 1..Len(term) |-> [term |-> term[k], user |-> <<p.user>>]]]

\* The role tags export_project .. export_annotations record for user u, in
\* the order of the export steps.
RolesOf(u, ontology, images, annots) ==
    (IF u = 1 THEN <<"project_manager">> ELSE <<>>)
    \o <<"project_contributor">>
    \o (IF ontology.user = u THEN <<"ontology_creator">> ELSE <<>>)
    \o (IF \E k \in 1..Len(images) : images[k].user = u
        THEN <<"image_creator">> ELSE <<>>)
    \o (IF \E k \in 1..Len(images) : images[k].reviewUser = u
        THEN <<"image_reviewer">> ELSE <<>>)
    \o (IF \E k \in 1..Len(annots) : annots[k].user = u
        THEN <<"userannotation_creator">> ELSE <<>>)
    \o (IF \E k \in 1..Len(annots) : \E j \in 1..Len(annots[k].userByTerm) :
               InList(u, annots[k].userByTerm[j].user)
        THEN <<"userannotationterm_creator">> ELSE <<>>)

Username(u) == IF u = 1 THEN "alice" ELSE IF u = 2 THEN "bob" ELSE "carol"

\* The documents of a snapshot directory.
AllDocs ==
    {"project", "ontology", "term-collection", "imageinstance-collection",
     "user-annotation-collection", "user-collection"}

\* The entities of a project: its ontology, terms, images and annotations.
Ontology == [id |-> 10, name |-> <<"O">>, user |-> 1]

Terms ==
    << [id |-> 11, name |-> "t1", color |-> "c1", parent |-> None, ontology |-> 10],
       [id |-> 12, name |-> "t2", color |-> "c2", parent |-> 11, ontology |-> 10] >>

Project == [id |-> 20, name |-> <<"P">>, ontology |-> 10]

Images(kinds) == [k \in 1..Len(kinds) |-> RemoteImage(30 + k, kinds[k])]

Annotations(profiles) ==
    [k \in 1..Len(profiles) |-> RemoteAnnotation(50 + k, profiles[k])]

\* The metadata of a project: a property and an attached file of the
\* project and a description of its first image.
Metadata(images) ==
    { [kind |-> "property", domainIdent |-> 20],
      [kind |-> "attached_file", domainIdent |-> 20] }
    \cup (IF Len(images) > 0
          THEN { [kind |-> "description", domainIdent |-> 31] } ELSE {})

\* The file name of the attached file of an object: the one of the project
\* has its own name, those of the other objects share one.
AttachedFilename(obj) == IF obj = 20 THEN "g" ELSE "f"

\* The snapshot directory that a full export of these entities writes: a
\* document for every entity and every collection that is not empty.
MakeSnap(kinds, profiles) ==
    LET images == Images(kinds)
        annots == Annotations(profiles)
        userseq == SeqOfSet(UserIds)
    IN [users |-> [k \in 1..Len(userseq) |->
                     [id |-> userseq[k], username |-> Username(userseq[k]),
                      roles |-> RolesOf(userseq[k], Ontology, images, annots)]],
        ontology |-> Ontology,
        terms |-> Terms,
        project |-> Project,
        images |-> images,
        annots |-> annots,
        meta |-> Metadata(images),
        files |-> {images[k].originalFilename : k \in 1..Len(images)},
        attached |-> {20},
        bytes |-> [f \in {AttachedFilename(20)} |-> 20],
        docs |-> AllDocs
                 \ ((IF Len(images) = 0 THEN {"imageinstance-collection"} ELSE {})
                    \cup (IF Len(annots) = 0
                          THEN {"user-annotation-collection"} ELSE {})),
        dirs |-> {"project", "attached_files", "images", "imagegroups"}]

\* The same snapshot with a document "[]" for every empty collection.
WithEmptyDocs(s) == [s EXCEPT !.docs = AllDocs]

\* A snapshot with one reference that no entity of the snapshot answers.
Defects ==
    {"ontology_user", "project_ontology", "image_user", "image_reviewer",
     "annotation_term", "annotation_image", "metadata_ident"}

WithDefect(s, d) ==
    CASE d = "ontology_user" -> [s EXCEPT !.ontology.user = 9]
      [] d = "project_ontology" -> [s EXCEPT !.project.ontology = 19]
      [] d = "image_user" -> [s EXCEPT !.images[1].user = 9]
      [] d = "image_reviewer" -> [s EXCEPT !.images[1].reviewUser = 9]
      [] d = "annotation_term" -> [s EXCEPT !.annots[1].term = <<19>>]
      [] d = "annotation_image" -> [s EXCEPT !.annots[1].image = 39]
      [] d = "metadata_ident" ->
            [s EXCEPT !.meta = (@ \ {[kind |-> "property", domainIdent |-> 20]})
                                \cup {[kind |-> "property", domainIdent |-> 99]}]

PlainSnap == MakeSnap(PlainKinds(MaxImages), PlainProfiles(MaxImages))

\* The snapshots an import run is given.
Snapshots ==
    {MakeSnap(kinds, PlainProfiles(Len(kinds))) : kinds \in KindSeqs}
    \cup {MakeSnap(PlainKinds(MaxImages), ps) : ps \in ProfileSeqs(MaxImages)}
    \cup {WithEmptyDocs(MakeSnap(PlainKinds(n), <<>>)) : n \in 0..MaxImages}
    \cup {WithDefect(PlainSnap, d) : d \in Defects}

\* ---------------------------------------------------------- source server
\* A project on the source server: user 1 manages it, every user
\* contributes to it.
MakeSource(kinds, profiles) ==
    [project |-> Project, admins |-> <<1>>, members |-> SeqOfSet(UserIds),
     ontology |-> Ontology, terms |-> Terms, images |-> Images(kinds),
     annots |-> Annotations(profiles),
     users |-> [u \in UserIds |-> [id |-> u, username |-> Username(u)]],
     meta |-> Metadata(Images(kinds))]

NoObject == [id |-> None, name |-> <<>>, user |-> None, ontology |-> None]

NoSource ==
    [project |-> NoObject, admins |-> <<>>, members |-> <<>>,
     ontology |-> NoObject, terms |-> <<>>, images |-> <<>>, annots |-> <<>>,
     users |-> <<>>, meta |-> {}]

\* A project holds one image instance per abstract image.
DistinctKindSeqs ==
    {kinds \in KindSeqs :
        \A j, k \in 1..Len(kinds) : j # k => kinds[j] # kinds[k]}

PlainSource == MakeSource(PlainKinds(MaxImages), PlainProfiles(MaxImages))

\* A project in which a user who is no member of it reviewed an image and
\* gave an annotation its term.
OutsiderSource ==
    [PlainSource EXCEPT
        !.users = [u \in UserIds \cup {3} |-> [id |-> u, username |-> Username(u)]],
        !.images[1].reviewUser = 3,
        !.annots[1].userByTerm[1].user = <<3>>]

\* A project whose first annotation has a property.
AnnotationMetaSource ==
    [PlainSource EXCEPT !.meta = @ \cup {[kind |-> "property", domainIdent |-> 51]}]

\* A project each image of which has an attached file.
AttachedSource ==
    [PlainSource EXCEPT !.meta = @ \cup
        {[kind |-> "attached_file", domainIdent |-> PlainSource.images[k].id] :
            k \in 1..Len(PlainSource.images)}]

Sources ==
    {MakeSource(kinds, PlainProfiles(Len(kinds))) : kinds \in DistinctKindSeqs}
    \cup {MakeSource(PlainKinds(MaxImages), ps) : ps \in ProfileSeqs(MaxImages)}
    \cup {OutsiderSource}

\* The snapshot directory before the export.
EmptySnap ==
    [users |-> <<>>, ontology |-> NoObject, terms |-> <<>>,
     project |-> NoObject, images |-> <<>>, annots |-> <<>>, meta |-> {},
     files |-> {}, attached |-> {}, bytes |-> EmptyMapping, docs |-> {},
     dirs |-> {}]

\* ---------------------------------------------------------- target server
\* A target holding the super-admin only.
EmptyTarget ==
    [users |-> << [id |-> 100, username |-> "admin"] >>,
     storages |-> << [id |-> 105, user |-> 100] >>,
     ontologies |-> <<>>, terms |-> <<>>, relations |-> {},
     projects |-> <<>>, abstracts |-> <<>>, images |-> <<>>,
     uploads |-> <<>>, annots |-> <<>>, meta |-> <<>>, nextId |-> 200]

\* A target that already holds a user, the ontology with its terms, a
\* project of the same name and an abstract image of the snapshot.
PopulatedTarget ==
    [EmptyTarget EXCEPT
        !.users = @ \o << [id |-> 101, username |-> "alice"] >>,
        !.storages = @ \o << [id |-> 106, user |-> 101] >>,
        !.ontologies = << [id |-> 110, name |-> <<"O">>, user |-> 100] >>,
        !.terms = << [id |-> 111, name |-> "t1", color |-> "c1",
                      parent |-> None, ontology |-> 110],
                     [id |-> 112, name |-> "t2", color |-> "c2",
                      parent |-> None, ontology |-> 110] >>,
        !.projects = << [id |-> 120, name |-> <<"P">>, ontology |-> 110,
                         users |-> <<>>, admins |-> <<>>] >>,
        !.abstracts = << [id |-> 140, originalFilename |-> <<"a">>, dims |-> 1] >>]

Targets == {EmptyTarget, PopulatedTarget}

\* A target ontology named "O" with these terms, given as <<name, color>>.
OntologyTarget(id, termlist) ==
    [ontologies |-> << [id |-> id, name |-> <<"O">>, user |-> 100] >>,
     terms |-> [k \in 1..Len(termlist) |->
                  [id |-> id + k, name |-> termlist[k][1], color |-> termlist[k][2],
                   parent |-> None, ontology |-> id]]]

\* A target that holds these ontologies (and the super-admin) only.
WithOntologies(os) ==
    [EmptyTarget EXCEPT
        !.ontologies = IF Len(os) = 1 THEN os[1].ontologies
                       ELSE os[1].ontologies \o os[2].ontologies,
        !.terms = IF Len(os) = 1 THEN os[1].terms ELSE os[1].terms \o os[2].terms]

\* Targets that hold an ontology "O" of other terms than the snapshot's: a
\* term of another colour; one term more; one term less; two ontologies
\* "O", the second one with the snapshot's terms; and an "O" and an "O (1)"
\* of other terms both.
OntologyTargets ==
    { WithOntologies(<<OntologyTarget(110, <<<<"t1", "c1">>, <<"t2", "c9">>>>)>>),
      WithOntologies(<<OntologyTarget(110,
          <<<<"t1", "c1">>, <<"t2", "c2">>, <<"t3", "c3">>>>)>>),
      WithOntologies(<<OntologyTarget(110, <<<<"t1", "c1">>>>)>>),
      WithOntologies(<<OntologyTarget(110, <<<<"t1", "c9">>>>),
                       OntologyTarget(115, <<<<"t1", "c1">>, <<"t2", "c2">>>>)>>),
      [WithOntologies(<<OntologyTarget(110, <<<<"t1", "c9">>>>),
                        OntologyTarget(115, <<<<"t2", "c9">>>>)>>)
          EXCEPT !.ontologies[2].name = Suffixed(<<"O">>, 1)] }

\* The order in which import_metadata reads the metadata documents:
\* properties, then attached files, then descriptions.
KindRank(kind) ==
    CASE kind = "property" -> 1
      [] kind = "attached_file" -> 2
      [] kind = "description" -> 3

MetaRank(doc) == 1000 * KindRank(doc.kind) + doc.domainIdent

MetaList(meta) ==
    LET ranks == SeqOfSet({MetaRank(doc) : doc \in meta})
    IN [k \in 1..Len(ranks) |-> CHOOSE doc \in meta : MetaRank(doc) = ranks[k]]

\* ================================================================== state
VARIABLES
    snap,                \* the snapshot directory (working_path)
    target,              \* the target server
    pc,                  \* where Importer.run stands
    error,               \* the exception that ended the run, or "none"
    id_mapping,          \* Importer.id_mapping
    last_puts,           \* the writes to id_mapping of the last step
    super_admin,         \* Importer.super_admin
    current_user,        \* Cytomine.get_instance().current_user
    fetched,             \* collections fetched once and then read
    i,                   \* the index of the running loop
    resolved,            \* import_ontology: the name and the ontology found
    remote_images_dict,  \* import_images: file name -> remote images
    count,               \* import_images: polling attempts made
    n_new_images,        \* import_images: image count of the last query
    new_images,          \* import_images: result of the last query
    poll_log,            \* queries and sleeps of the polling loop, in order
    tasks,               \* the tasks of the running Parallel batch
    faults,              \* gateway calls that failed so far
    source,              \* the project on the source server
    flags,               \* the options of the Exporter
    exp_users,           \* Exporter.users
    target0,             \* the target server as the import found it
    runs,                \* the import runs started so far
    prev_mapping         \* the id_mapping the run before ended with

vars ==
    <<snap, target, pc, error, id_mapping, last_puts, super_admin,
      current_user, fetched, i, resolved, remote_images_dict, count,
      n_new_images, new_images, poll_log, tasks, faults, source, flags,
      exp_users, target0, runs, prev_mapping>>

\* UNCHANGED for what a step of an import run never touches.
ExportVars == <<source, flags, exp_users, target0, runs, prev_mapping>>

\* UNCHANGED for what the exporter never touches.
ImportLocals ==
    <<target, id_mapping, last_puts, super_admin, current_user, fetched, i,
      resolved, remote_images_dict, count, n_new_images, new_images, poll_log>>

ImportVars == <<ImportLocals, error, tasks, faults>>

NothingFetched ==
    [users |-> <<>>, ontologies |-> <<>>, terms |-> <<>>, projects |-> <<>>,
     storages |-> <<>>, abstract_images |-> <<>>]

NoneCollection == [isNone |-> TRUE, items |-> <<>>]

NotResolved == [name |-> <<>>, existing |-> <<>>]

NoTasks == [a \in {} |-> "pending"]

EmptyDict == [k \in {} |-> <<>>]

\* Importer.__init__, on a connected client.
InitImporter ==
    /\ pc = "run"
    /\ error = "none"
    /\ id_mapping = EmptyMapping
    /\ last_puts = <<>>
    /\ super_admin = None
    /\ current_user = target.users[1].id
    /\ fetched = NothingFetched
    /\ i = 1
    /\ resolved = NotResolved
    /\ remote_images_dict = EmptyDict
    /\ count = 0
    /\ n_new_images = NoCountYet
    /\ new_images = NoneCollection
    /\ poll_log = <<>>
    /\ tasks = NoTasks
    /\ faults = 0

\* The command line of the exporter: every option at its default.
DefaultFlags ==
    [with_image_download |-> TRUE, with_image_groups |-> TRUE,
     with_user_annotations |-> TRUE, with_annotation_metadata |-> FALSE,
     with_metadata |-> TRUE, anonymize |-> FALSE]

Init ==
    /\ \/ snap \in Snapshots /\ target \in Targets
       \/ snap = PlainSnap /\ target \in OntologyTargets
    /\ InitImporter
    /\ source = NoSource
    /\ flags = DefaultFlags
    /\ exp_users = <<>>
    /\ target0 = target
    /\ runs = 1
    /\ prev_mapping = EmptyMapping

\* The snapshot holds no document of this model: _get_filenames leaves the
\* empty list for it, and open() on a list is a TypeError.
Absent(doc) == doc \notin snap.docs

\* connect_as(user): the client acts as that user from now on.
connect_as_nobody(user) == None

connect_as(user) == user

\* UNCHANGED for the locals of import_images and import_annotations.
ImageLocals == <<remote_images_dict, count, n_new_images, new_images, poll_log>>

\* ------------------------------------------------------------- Importer.run
\* The phases of run, in the order run calls them.
RunOrderProjectFirst ==
    <<"users", "project", "ontology", "images", "annotations", "metadata", "done">>

RunOrder ==
    <<"users", "ontology", "project", "images", "annotations", "metadata", "done">>

Following(phase) ==
    RunOrder[(CHOOSE k \in 1..Len(RunOrder) : RunOrder[k] = phase) + 1]

\* run, up to the user loop: capture the super-admin, fetch the users.
RunStart ==
    /\ pc = "run" /\ error = "none"
    /\ super_admin' = current_user
    /\ current_user' = connect_as(current_user)
    /\ fetched' = [fetched EXCEPT !.users = target.users]
    /\ i' = 1
    /\ IF Absent("user-collection")
       THEN error' = "TypeError" /\ pc' = pc
       ELSE error' = error /\ pc' = RunOrder[1]
    /\ last_puts' = <<>>
    /\ UNCHANGED <<snap, target, id_mapping, resolved, tasks, faults>>
    /\ UNCHANGED ImageLocals
    /\ UNCHANGED ExportVars

\* run, one turn of the user loop (or its end).
ImportUser ==
    /\ pc = "users" /\ error = "none"
    /\ IF i > Len(snap.users)
       THEN /\ pc' = Following("users")
            /\ i' = 1
            /\ last_puts' = <<>>
            /\ UNCHANGED <<target, id_mapping>>
       ELSE LET remote_user == snap.users[i]
                user == find_first(SelectSeq(fetched.users,
                            LAMBDA u : u.username = remote_user.username))
                uid == IF user = <<>> THEN target.nextId ELSE user[1].id
            IN /\ target' =
                    IF user = <<>>
                    THEN [target EXCEPT
                            !.users = Append(@, [id |-> uid,
                                          username |-> remote_user.username]),
                            !.nextId = @ + 1]
                    ELSE target
               /\ id_mapping' = Put(id_mapping, remote_user.id, uid)
               /\ last_puts' = <<PutRecord(id_mapping, remote_user.id, uid)>>
               /\ i' = i + 1
               /\ pc' = pc
    /\ UNCHANGED <<snap, error, super_admin, current_user, fetched, resolved,
                   tasks, faults>>
    /\ UNCHANGED ImageLocals
    /\ UNCHANGED ExportVars

\* -------------------------------------------------- Importer.import_ontology
\* ontology_exists that takes no ontology of the target for the snapshot's.
ontology_exists_by_name(ontologies, terms, remote_terms, name) ==
    [found |-> \A k \in 1..Len(ontologies) : ontologies[k].name # Strip(name),
     existing |-> <<>>]

ontology_exists(ontologies, terms, remote_terms, name) ==
    LET compatible_ontology ==
            find_first(SelectSeq(ontologies, LAMBDA o : o.name = Strip(name)))
    IN IF compatible_ontology # <<>>
       THEN LET set1 == {<<terms[k].name, terms[k].color>> :
                            k \in {j \in 1..Len(terms) :
                                     terms[j].ontology = compatible_ontology[1].id}}
                difference == SelectSeq(remote_terms,
                                LAMBDA t : <<t.name, t.color>> \notin set1)
            IN IF Len(difference) = 0
               THEN [found |-> TRUE, existing |-> compatible_ontology]
               ELSE [found |-> FALSE, existing |-> <<>>]
       ELSE [found |-> TRUE, existing |-> <<>>]

\* The loop "while not found": n = 0 tries the snapshot's name.
AvailableOntologyUnchecked(ontologies, terms, remote_terms, remote_name, n) ==
    [name |-> remote_name, existing |-> <<>>]

RECURSIVE AvailableOntology(_, _, _, _, _)
AvailableOntology(ontologies, terms, remote_terms, remote_name, n) ==
    LET name == IF n = 0 THEN remote_name ELSE Suffixed(remote_name, n)
        r == ontology_exists(ontologies, terms, remote_terms, name)
    IN IF r.found THEN [name |-> name, existing |-> r.existing]
       ELSE AvailableOntology(ontologies, terms, remote_terms, remote_name, n + 1)

\* import_ontology up to the switch to the ontology's creator.
OntologyBegin ==
    /\ pc = "ontology" /\ error = "none"
    /\ fetched' = [fetched EXCEPT !.ontologies = target.ontologies,
                                  !.terms = target.terms]
    /\ resolved' = AvailableOntology(target.ontologies, target.terms,
                       snap.terms, Strip(snap.ontology.name), 0)
    /\ last_puts' = <<>>
    /\ IF Absent("ontology") \/ Absent("term-collection")
       THEN /\ error' = "TypeError"
            /\ UNCHANGED <<current_user, pc, i>>
       ELSE IF ~Missing(id_mapping, {snap.ontology.user})
       THEN /\ current_user' = connect_as(Get(id_mapping, snap.ontology.user))
            /\ pc' = IF resolved'.existing = <<>> THEN "ont_create" ELSE "ont_link"
            /\ i' = 0
            /\ error' = error
       ELSE /\ error' = "KeyError"
            /\ UNCHANGED <<current_user, pc, i>>
    /\ UNCHANGED <<snap, target, id_mapping, super_admin, tasks, faults>>
    /\ UNCHANGED ImageLocals
    /\ UNCHANGED ExportVars

\* The new ontology is saved and mapped.
OntologyCreate ==
    /\ pc = "ont_create" /\ error = "none"
    /\ LET newid == target.nextId
       IN /\ target' = [target EXCEPT
                !.ontologies = Append(@, [id |-> newid, name |-> resolved.name,
                                  user |-> Get(id_mapping, snap.ontology.user)]),
                !.nextId = @ + 1]
          /\ id_mapping' = Put(id_mapping, snap.ontology.id, newid)
          /\ last_puts' = <<PutRecord(id_mapping, snap.ontology.id, newid)>>
    /\ i' = 1
    /\ pc' = "ont_terms"
    /\ UNCHANGED <<snap, error, super_admin, current_user, fetched, resolved,
                   tasks, faults>>
    /\ UNCHANGED ImageLocals
    /\ UNCHANGED ExportVars

\* One turn of the term loop (or its end).
OntologyTerm ==
    /\ pc = "ont_terms" /\ error = "none"
    /\ IF i > Len(snap.terms)
       THEN /\ pc' = "ont_relations"
            /\ i' = 1
            /\ last_puts' = <<>>
            /\ UNCHANGED <<target, id_mapping, error>>
       ELSE LET remote_term == snap.terms[i]
                newid == target.nextId
            IN IF ~Missing(id_mapping, {remote_term.ontology})
               THEN /\ target' = [target EXCEPT
                          !.terms = Append(@, [id |-> newid,
                                      name |-> remote_term.name,
                                      color |-> remote_term.color,
                                      parent |-> None,
                                      ontology |-> Get(id_mapping, remote_term.ontology)]),
                          !.nextId = @ + 1]
                    /\ id_mapping' = Put(id_mapping, remote_term.id, newid)
                    /\ last_puts' = <<PutRecord(id_mapping, remote_term.id, newid)>>
                    /\ i' = i + 1
                    /\ UNCHANGED <<pc, error>>
               ELSE /\ error' = "KeyError"
                    /\ last_puts' = <<>>
                    /\ UNCHANGED <<target, id_mapping, i, pc>>
    /\ UNCHANGED <<snap, super_admin, current_user, fetched, resolved, tasks,
                   faults>>
    /\ UNCHANGED ImageLocals
    /\ UNCHANGED ExportVars

\* The (parent, child) pairs of the snapshot's terms, in the terms' order.
remote_relation_terms_rooted(remote_terms) ==
    [k \in 1..Len(remote_terms) |->
        <<IF remote_terms[k].parent = None THEN remote_terms[k].id
          ELSE remote_terms[k].parent, remote_terms[k].id>>]

remote_relation_terms(remote_terms) ==
    [k \in 1..Len(remote_terms) |-> <<remote_terms[k].parent, remote_terms[k].id>>]

\* One turn of the relation loop (or its end).
OntologyRelation ==
    /\ pc = "ont_relations" /\ error = "none"
    /\ last_puts' = <<>>
    /\ IF i > Len(snap.terms)
       THEN /\ pc' = "ont_restore"
            /\ i' = 1
            /\ UNCHANGED <<target, error>>
       ELSE LET parent == remote_relation_terms(snap.terms)[i][1]
                child == remote_relation_terms(snap.terms)[i][2]
            IN IF parent # None
               THEN IF ~Missing(id_mapping, {parent, child})
                    THEN /\ target' = [target EXCEPT !.relations =
                               @ \cup {<<Get(id_mapping, parent), Get(id_mapping, child)>>}]
                         /\ i' = i + 1
                         /\ UNCHANGED <<pc, error>>
                    ELSE /\ error' = "KeyError"
                         /\ UNCHANGED <<target, i, pc>>
               ELSE /\ i' = i + 1
                    /\ UNCHANGED <<target, pc, error>>
    /\ UNCHANGED <<snap, id_mapping, super_admin, current_user, fetched,
                   resolved, tasks, faults>>
    /\ UNCHANGED ImageLocals
    /\ UNCHANGED ExportVars

\* The existing ontology is mapped (turn 0), then one term per turn.
OntologyLink ==
    /\ pc = "ont_link" /\ error = "none"
    /\ LET existing_ontology == resolved.existing[1]
           ontology_terms == SelectSeq(fetched.terms,
                                LAMBDA t : t.ontology = existing_ontology.id)
       IN IF i = 0
          THEN /\ id_mapping' =
                    Put(id_mapping, snap.ontology.id, existing_ontology.id)
               /\ last_puts' = <<PutRecord(id_mapping, snap.ontology.id,
                                           existing_ontology.id)>>
               /\ i' = 1
               /\ UNCHANGED <<pc, error>>
          ELSE IF i > Len(snap.terms)
          THEN /\ pc' = "ont_restore"
               /\ i' = 1
               /\ last_puts' = <<>>
               /\ UNCHANGED <<id_mapping, error>>
          ELSE LET remote_term == snap.terms[i]
                   match == find_first(SelectSeq(ontology_terms,
                               LAMBDA t : t.name = remote_term.name))
               IN IF match # <<>>
                  THEN /\ id_mapping' = Put(id_mapping, remote_term.id, match[1].id)
                       /\ last_puts' =
                            <<PutRecord(id_mapping, remote_term.id, match[1].id)>>
                       /\ i' = i + 1
                       /\ UNCHANGED <<pc, error>>
                  ELSE /\ error' = "AttributeError"
                       /\ last_puts' = <<>>
                       /\ UNCHANGED <<id_mapping, i, pc>>
    /\ UNCHANGED <<snap, target, super_admin, current_user, fetched, resolved,
                   tasks, faults>>
    /\ UNCHANGED ImageLocals
    /\ UNCHANGED ExportVars

\* The switch back to the super-admin, in import_ontology and again in run.
OntologyRestore ==
    /\ pc = "ont_restore" /\ error = "none"
    /\ current_user' = connect_as(super_admin)
    /\ pc' = Following("ontology")
    /\ last_puts' = <<>>
    /\ UNCHANGED <<snap, target, error, id_mapping, super_admin, fetched, i,
                   resolved, tasks, faults>>
    /\ UNCHANGED ImageLocals
    /\ UNCHANGED ExportVars

\* --------------------------------------------------- Importer.import_project
\* available_name: the first of name, name (1), name (2), .. that is free.
available_name_unchecked(existing_names, name, n) == name

RECURSIVE available_name(_, _, _)
available_name(existing_names, name, n) ==
    LET new_name == IF n = 0 THEN name ELSE Suffixed(name, n)
    IN IF new_name \in existing_names
       THEN available_name(existing_names, name, n + 1)
       ELSE new_name

MappedUsers(m, role) ==
    LET us == SelectSeq(snap.users, LAMBDA u : InList(role, u.roles))
    IN [k \in 1..Len(us) |-> Get(m, us[k].id)]

ImportProject ==
    /\ pc = "project" /\ error = "none"
    /\ fetched' = [fetched EXCEPT !.projects = target.projects]
    /\ IF Absent("project")
       THEN /\ error' = "TypeError"
            /\ last_puts' = <<>>
            /\ UNCHANGED <<target, id_mapping, pc>>
       ELSE IF ~Missing(id_mapping, {snap.project.ontology})
       THEN LET newid == target.nextId
                name == available_name(
                            {target.projects[k].name : k \in 1..Len(target.projects)},
                            Strip(snap.project.name), 0)
            IN /\ target' = [target EXCEPT
                     !.projects = Append(@,
                         [id |-> newid, name |-> name,
                          ontology |-> Get(id_mapping, snap.project.ontology),
                          users |-> MappedUsers(id_mapping, "project_contributor"),
                          admins |-> MappedUsers(id_mapping, "project_manager")]),
                     !.nextId = @ + 1]
               /\ id_mapping' = Put(id_mapping, snap.project.id, newid)
               /\ last_puts' = <<PutRecord(id_mapping, snap.project.id, newid)>>
               /\ pc' = Following("project")
               /\ error' = error
       ELSE /\ error' = "KeyError"
            /\ last_puts' = <<>>
            /\ UNCHANGED <<target, id_mapping, pc>>
    /\ UNCHANGED <<snap, super_admin, current_user, i, resolved, tasks, faults>>
    /\ UNCHANGED ImageLocals
    /\ UNCHANGED ExportVars

\* ---------------------------------------------------- Importer.import_images
\* The name the target gives the image instance of an uploaded file: the
\* file name as the upload request carries it, which holds ASCII only.
ServerFilename(path) == AsciiIgnore(path)

\* dict[key].append(x), creating the list on the first use of the key.
DictAppend(d, key, x) ==
    [k \in DOMAIN d \cup {key} |->
        IF k = key THEN (IF key \in DOMAIN d THEN Append(d[key], x) ELSE <<x>>)
        ELSE d[k]]

\* The storage of the acting user, or the first storage.
StorageOf(storages, user) ==
    LET own == find_first(SelectSeq(storages, LAMBDA st : st.user = user))
    IN IF own # <<>> THEN own ELSE find_first(storages)

\* import_images up to the image loop: the collections are fetched once.
ImagesBegin ==
    /\ pc = "images" /\ error = "none"
    /\ fetched' = [fetched EXCEPT !.storages = target.storages,
                                  !.abstract_images = target.abstracts]
    /\ remote_images_dict' = EmptyDict
    /\ i' = 1
    /\ IF Absent("imageinstance-collection")
       THEN error' = "TypeError" /\ pc' = pc
       ELSE error' = error /\ pc' = "img_switch"
    /\ last_puts' = <<>>
    /\ UNCHANGED <<snap, target, id_mapping, super_admin, current_user,
                   resolved, count, n_new_images, new_images, poll_log, tasks,
                   faults>>
    /\ UNCHANGED ExportVars

\* One turn of the image loop up to the switch to the image's creator (or
\* the loop's end, where the polling variables are set).
ImageSwitch ==
    /\ pc = "img_switch" /\ error = "none"
    /\ last_puts' = <<>>
    /\ IF i > Len(snap.images)
       THEN /\ pc' = "poll"
            /\ n_new_images' = NoCountYet
            /\ new_images' = NoneCollection
            /\ count' = 0
            /\ UNCHANGED <<remote_images_dict, current_user, error>>
       ELSE LET remote_image == snap.images[i]
                key == AsciiIgnore(remote_image.originalFilename)
            IN /\ remote_images_dict' = DictAppend(remote_images_dict, key, i)
               /\ IF ~Missing(id_mapping, {remote_image.user})
                  THEN /\ current_user' = connect_as(Get(id_mapping, remote_image.user))
                       /\ pc' = "img_work"
                       /\ error' = error
                  ELSE /\ error' = "KeyError"
                       /\ UNCHANGED <<current_user, pc>>
               /\ UNCHANGED <<count, n_new_images, new_images>>
    /\ UNCHANGED <<snap, target, id_mapping, super_admin, fetched, i, resolved,
                   poll_log, tasks, faults>>
    /\ UNCHANGED ExportVars

\* The target links an abstract image into a project, unless the project
\* holds an instance of it already.
LinkImage(t, abstract_image, project, user) ==
    IF \E k \in 1..Len(t.images) :
          t.images[k].baseImage = abstract_image.id /\ t.images[k].project = project
    THEN t
    ELSE [t EXCEPT
            !.images = Append(@,
                [id |-> t.nextId, baseImage |-> abstract_image.id,
                 project |-> project,
                 originalFilename |-> abstract_image.originalFilename,
                 user |-> user, reviewUser |-> None, origin |-> None]),
            !.nextId = @ + 1]

\* The image is linked, or its file is uploaded.
ImageWork ==
    /\ pc = "img_work" /\ error = "none"
    /\ last_puts' = <<>>
    /\ LET remote_image == snap.images[i]
           name == AsciiIgnore(remote_image.originalFilename)
           storage == StorageOf(fetched.storages, current_user)
           abstract_image ==
               find_first(SelectSeq(fetched.abstract_images,
                   LAMBDA ai : ai.originalFilename = name
                               /\ ai.dims = remote_image.dims))
           filename == ReplaceSlash(remote_image.originalFilename)
           project == Get(id_mapping, snap.project.id)
       IN IF storage = <<>>
          THEN /\ error' = "IndexError"
               /\ UNCHANGED <<target, pc>>
          ELSE IF abstract_image # <<>>
          THEN /\ target' = LinkImage(target, abstract_image[1], project, current_user)
               /\ pc' = "img_restore"
               /\ error' = error
          ELSE IF filename \in snap.files
          THEN /\ target' = [target EXCEPT !.uploads = Append(@,
                      [originalFilename |-> ServerFilename(filename),
                       dims |-> remote_image.dims, project |-> project,
                       storage |-> storage[1].id, user |-> current_user])]
               /\ pc' = "img_restore"
               /\ error' = error
          ELSE /\ error' = "FileNotFoundError"
               /\ UNCHANGED <<target, pc>>
    /\ UNCHANGED <<snap, id_mapping, super_admin, current_user, fetched, i,
                   resolved, tasks, faults>>
    /\ UNCHANGED ImageLocals
    /\ UNCHANGED ExportVars

\* The switch back to the super-admin that ends a turn of the image loop.
ImageRestore ==
    /\ pc = "img_restore" /\ error = "none"
    /\ current_user' = connect_as(super_admin)
    /\ i' = i + 1
    /\ pc' = "img_switch"
    /\ last_puts' = <<>>
    /\ UNCHANGED <<snap, target, error, id_mapping, super_admin, fetched,
                   resolved, tasks, faults>>
    /\ UNCHANGED ImageLocals
    /\ UNCHANGED ExportVars

\* The target's ingestion of one uploaded file, whenever it gets to it: an
\* abstract image and its image instance in the project.  The importer sees
\* the target's images at its queries only, so the ingestion is placed in
\* the polling phase.
Ingest ==
    /\ pc = "poll" /\ error = "none"
    /\ \E k \in 1..Len(target.uploads) :
          LET up == target.uploads[k]
              aid == target.nextId
          IN target' = [target EXCEPT
                !.uploads = SubSeq(@, 1, k - 1) \o SubSeq(@, k + 1, Len(@)),
                !.abstracts = Append(@, [id |-> aid,
                      originalFilename |-> up.originalFilename, dims |-> up.dims]),
                !.images = Append(@,
                      [id |-> aid + 1, baseImage |-> aid, project |-> up.project,
                       originalFilename |-> up.originalFilename,
                       user |-> up.user, reviewUser |-> None, origin |-> None]),
                !.nextId = @ + 2]
    /\ UNCHANGED <<snap, pc, error, id_mapping, last_puts, super_admin,
                   current_user, fetched, i, resolved, tasks, faults>>
    /\ UNCHANGED ImageLocals
    /\ UNCHANGED ExportVars

\* The same collection with every image instance listed twice.
ProjectImagesRepeated(t, project) ==
    LET ims == SelectSeq(t.images, LAMBDA im : im.project = project)
    IN [k \in 1..(2 * Len(ims)) |-> ims[((k - 1) % Len(ims)) + 1].id]

\* ImageInstanceCollection().fetch_with_filter("project", id)
ProjectImages(t, project) ==
    LET ims == SelectSeq(t.images, LAMBDA im : im.project = project)
    IN [k \in 1..Len(ims) |-> ims[k].id]

\* The attempts the polling loop may make for E expected images.
PollBudget(E) == E * AttemptsPerImage

\* The condition of the polling loop.
PollAgainWhateverCount(n, E, c) == c < PollBudget(E)

PollAgain(n, E, c) == n # E /\ c < PollBudget(E)

\* What one turn of the loop adds to the log: the query, with whether the
\* count it observed is the expected one, then the sleep that the turn
\* makes when it is not the first.
Query(n, E) == [op |-> "query", hit |-> n = E, secs |-> 0]

Sleep == [op |-> "sleep", hit |-> FALSE, secs |-> PollInterval]

PollEvents(c, n, E) == IF c > 0 THEN <<Query(n, E), Sleep>> ELSE <<Query(n, E)>>

\* One turn of the polling loop.
PollStep ==
    /\ pc = "poll" /\ error = "none"
    /\ PollAgain(n_new_images, Len(snap.images), count)
    /\ new_images' = [isNone |-> FALSE,
                      items |-> ProjectImages(target, Get(id_mapping, snap.project.id))]
    /\ n_new_images' = Len(new_images'.items)
    /\ poll_log' = poll_log \o PollEvents(count, n_new_images', Len(snap.images))
    /\ count' = count + 1
    /\ UNCHANGED <<snap, target, pc, error, id_mapping, last_puts, super_admin,
                   current_user, fetched, i, resolved, remote_images_dict,
                   tasks, faults>>
    /\ UNCHANGED ExportVars

\* The loop's end: the fix-up loop starts on what the last query returned,
\* and cannot start on None.
PollExit ==
    /\ pc = "poll" /\ error = "none"
    /\ ~PollAgain(n_new_images, Len(snap.images), count)
    /\ IF new_images.isNone
       THEN /\ error' = "TypeError"
            /\ UNCHANGED <<pc, i>>
       ELSE /\ pc' = "fix"
            /\ i' = 1
            /\ error' = error
    /\ UNCHANGED <<snap, target, id_mapping, last_puts, super_admin,
                   current_user, fetched, resolved, tasks, faults>>
    /\ UNCHANGED ImageLocals
    /\ UNCHANGED ExportVars

TargetImage(t, id) == CHOOSE im \in Range(t.images) : im.id = id

\* new_image.update() with the review user and the origin of the instance.
UpdateImage(t, id, reviewUser, origin) ==
    [t EXCEPT !.images =
        [k \in 1..Len(@) |->
            IF @[k].id = id
            THEN [@[k] EXCEPT !.reviewUser = reviewUser, !.origin = origin]
            ELSE @[k]]]

\* One turn of the fix-up loop (or its end, which ends import_images).
FixStep ==
    /\ pc = "fix" /\ error = "none"
    /\ IF i > Len(new_images.items)
       THEN /\ pc' = Following("images")
            /\ i' = 1
            /\ last_puts' = <<>>
            /\ remote_images_dict' = EmptyDict
            /\ count' = 0
            /\ n_new_images' = NoCountYet
            /\ new_images' = NoneCollection
            /\ poll_log' = <<>>
            /\ UNCHANGED <<target, id_mapping, error>>
       ELSE LET new_image == TargetImage(target, new_images.items[i])
                key == new_image.originalFilename
            IN /\ UNCHANGED <<count, n_new_images, new_images, poll_log>>
               /\ IF ~(key \in DOMAIN remote_images_dict)
                  THEN /\ error' = "KeyError"
                       /\ last_puts' = <<>>
                       /\ UNCHANGED <<target, id_mapping, remote_images_dict, i, pc>>
                  ELSE IF Len(remote_images_dict[key]) = 0
                  THEN /\ error' = "IndexError"
                       /\ last_puts' = <<>>
                       /\ UNCHANGED <<target, id_mapping, remote_images_dict, i, pc>>
                  ELSE LET remote_image == snap.images[PopItem(remote_images_dict[key])]
                           m1 == Put(id_mapping, remote_image.id, new_image.id)
                       IN /\ remote_images_dict' =
                               [remote_images_dict EXCEPT ![key] = PopRest(@)]
                          /\ IF remote_image.reviewUser # None
                                /\ Missing(id_mapping, {remote_image.reviewUser})
                             THEN /\ error' = "KeyError"
                                  /\ last_puts' = <<>>
                                  /\ UNCHANGED <<target, id_mapping, i, pc>>
                             ELSE /\ target' = UpdateImage(target, new_image.id,
                                        IF remote_image.reviewUser # None
                                        THEN Get(id_mapping, remote_image.reviewUser)
                                        ELSE None,
                                        remote_image.id)
                                  /\ id_mapping' = Put(m1, remote_image.baseImage,
                                                       new_image.baseImage)
                                  /\ last_puts' =
                                        <<PutRecord(id_mapping, remote_image.id,
                                                    new_image.id),
                                          PutRecord(m1, remote_image.baseImage,
                                                    new_image.baseImage)>>
                                  /\ i' = i + 1
                                  /\ UNCHANGED <<pc, error>>
    /\ UNCHANGED <<snap, super_admin, current_user, fetched, resolved, tasks,
                   faults>>
    /\ UNCHANGED ExportVars

\* ----------------------------------------------- Importer.import_annotations
\* The users whose annotations are imported, in the order of the user list.
Creators == SelectSeq(snap.users, LAMBDA u : InList("userannotation_creator", u.roles))

\* remote_annots_for_user, as positions in the annotation list.
AnnotationsOf(user) == {a \in 1..Len(snap.annots) : snap.annots[a].user = user}

\* One turn of the creator loop up to the start of its batch (or the loop's
\* end, which ends import_annotations).
AnnotationSwitch ==
    /\ pc = "annotations" /\ error = "none"
    /\ last_puts' = <<>>
    /\ IF i = 1 /\ Absent("user-annotation-collection")
       THEN /\ error' = "TypeError"
            /\ UNCHANGED <<current_user, tasks, pc, i>>
       ELSE IF i > Len(Creators)
       THEN /\ pc' = Following("annotations")
            /\ i' = 1
            /\ UNCHANGED <<current_user, tasks, error>>
       ELSE IF ~Missing(id_mapping, {Creators[i].id})
       THEN /\ current_user' = connect_as(Get(id_mapping, Creators[i].id))
            /\ tasks' = [a \in AnnotationsOf(Creators[i].id) |-> "pending"]
            /\ pc' = "ann_batch"
            /\ UNCHANGED <<i, error>>
       ELSE /\ error' = "KeyError"
            /\ UNCHANGED <<current_user, tasks, pc, i>>
    /\ UNCHANGED <<snap, target, id_mapping, super_admin, fetched, resolved,
                   faults>>
    /\ UNCHANGED ImageLocals
    /\ UNCHANGED ExportVars

\* _add_annotation without its early return.
AddAnnotationOutcomeUnguarded(m, remote_annotation) ==
    IF Missing(m, {remote_annotation.project, remote_annotation.image,
                   remote_annotation.user} \cup Range(remote_annotation.term))
    THEN "KeyError"
    ELSE "save"

\* What _add_annotation does with one remote annotation: "skipped" (the
\* early return), "KeyError" (an unmapped user or term) or "save".
AddAnnotationOutcome(m, remote_annotation) ==
    IF ~Has(m, remote_annotation.project) \/ ~Has(m, remote_annotation.image)
    THEN "skipped"
    ELSE IF Missing(m, {remote_annotation.user} \cup Range(remote_annotation.term))
    THEN "KeyError"
    ELSE "save"

\* _add_annotation that maps the annotation it is run for.
add_annotation_recording(m, remote_annotation, newid) ==
    Put(m, remote_annotation.id, newid)

\* The id mapping as a task leaves it: _add_annotation reads the mapping it
\* is handed and assigns no entry of it.
add_annotation_mapping(m, remote_annotation, newid) == m

\* Whether the gateway call that comes next may raise.
MayRaise == IF faults < MaxFaults THEN {FALSE, TRUE} ELSE {FALSE}

\* One task of the batch: _add_annotation on one remote annotation.  The
\* tasks of a batch run on threads, in any order.
AnnotationTask ==
    /\ pc = "ann_batch" /\ error = "none"
    /\ last_puts' = <<>>
    /\ \E a \in DOMAIN tasks :
          /\ tasks[a] = "pending"
          /\ id_mapping' = add_annotation_mapping(id_mapping, snap.annots[a],
                                                  target.nextId)
          /\ LET remote_annotation == snap.annots[a]
                 outcome == AddAnnotationOutcome(id_mapping, remote_annotation)
             IN IF outcome = "save"
                THEN \E raises \in MayRaise :
                        IF raises
                        THEN /\ tasks' = [tasks EXCEPT ![a] = "NetworkError"]
                             /\ faults' = faults + 1
                             /\ UNCHANGED target
                        ELSE /\ tasks' = [tasks EXCEPT ![a] = "done"]
                             /\ target' = [target EXCEPT
                                  !.annots = Append(@,
                                     [id |-> target.nextId,
                                      project |-> Get(id_mapping, remote_annotation.project),
                                      image |-> Get(id_mapping, remote_annotation.image),
                                      user |-> Get(id_mapping, remote_annotation.user),
                                      term |-> [k \in 1..Len(remote_annotation.term) |->
                                                  Get(id_mapping, remote_annotation.term[k])],
                                      creator |-> current_user,
                                      origin |-> remote_annotation.id]),
                                  !.nextId = @ + 1]
                             /\ UNCHANGED faults
                ELSE /\ tasks' = [tasks EXCEPT ![a] = outcome]
                     /\ UNCHANGED <<target, faults>>
    /\ UNCHANGED <<snap, pc, error, super_admin, current_user,
                   fetched, i, resolved>>
    /\ UNCHANGED ImageLocals
    /\ UNCHANGED ExportVars

TaskRaised(st) == st \in {"KeyError", "NetworkError"}

\* Whether Parallel(...)(...) may return: it does once every task has.
AllReturnedUnwaited(ts) == TRUE

AllReturned(ts) == \A a \in DOMAIN ts : ts[a] # "pending"

\* Parallel(...)(...) returns once every task has returned; an exception of
\* a task is raised again in import_annotations, whose pending tasks are
\* then never started.
AnnotationJoin ==
    /\ pc = "ann_batch" /\ error = "none"
    /\ last_puts' = <<>>
    /\ IF \E a \in DOMAIN tasks : TaskRaised(tasks[a])
       THEN /\ error' = tasks[CHOOSE a \in DOMAIN tasks : TaskRaised(tasks[a])]
            /\ UNCHANGED pc
       ELSE /\ AllReturned(tasks)
            /\ pc' = "ann_restore"
            /\ error' = error
    /\ UNCHANGED <<snap, target, id_mapping, super_admin, current_user,
                   fetched, i, resolved, tasks, faults>>
    /\ UNCHANGED ImageLocals
    /\ UNCHANGED ExportVars

\* The switch back to the super-admin that ends a turn of the creator loop.
AnnotationRestore ==
    /\ pc = "ann_restore" /\ error = "none"
    /\ current_user' = connect_as(super_admin)
    /\ tasks' = NoTasks
    /\ i' = i + 1
    /\ pc' = "annotations"
    /\ last_puts' = <<>>
    /\ UNCHANGED <<snap, target, error, id_mapping, super_admin, fetched,
                   resolved, faults>>
    /\ UNCHANGED ImageLocals
    /\ UNCHANGED ExportVars

\* -------------------------------------------------- Importer.import_metadata
\* One property, attached file or description (or the end of the last
\* loop, which ends the run).
ImportMetadata ==
    /\ pc = "metadata" /\ error = "none"
    /\ last_puts' = <<>>
    /\ IF i > Len(MetaList(snap.meta))
       THEN /\ pc' = Following("metadata")
            /\ i' = 1
            /\ UNCHANGED <<target, error>>
       ELSE LET doc == MetaList(snap.meta)[i]
            IN IF Missing(id_mapping, {doc.domainIdent})
               THEN /\ error' = "KeyError"
                    /\ UNCHANGED <<target, i, pc>>
               ELSE IF doc.kind = "attached_file"
                       /\ doc.domainIdent \notin snap.attached
               THEN /\ error' = "FileNotFoundError"
                    /\ UNCHANGED <<target, i, pc>>
               ELSE /\ target' = [target EXCEPT !.meta = Append(@,
                          [kind |-> doc.kind,
                           domainIdent |-> Get(id_mapping, doc.domainIdent)])]
                    /\ i' = i + 1
                    /\ UNCHANGED <<pc, error>>
    /\ UNCHANGED <<snap, id_mapping, super_admin, current_user, fetched,
                   resolved, tasks, faults>>
    /\ UNCHANGED ImageLocals
    /\ UNCHANGED ExportVars

\* ================================================================ exporter
\* save_object: a falsy object (a failed fetch, an empty collection) is not
\* written; anything else becomes the document doc of the snapshot.
save_object(s, doc, empty) == IF empty THEN s ELSE [s EXCEPT !.docs = @ \cup {doc}]

\* find_or_append_by_id: the list, with obj appended unless its id is there.
find_or_append_by_id(obj, l) ==
    LET items == SelectSeq(l, LAMBDA x : x.id = obj.id)
    IN IF Len(items) > 0 THEN l ELSE Append(l, obj)

\* save_user: the user joins self.users on its first role; the role is
\* appended to the roles of the entry that carries the user's id.
save_user_dropped(users, user, role) ==
    IF role \in {"project_manager", "project_contributor"}
    THEN LET l == find_or_append_by_id(
                      [id |-> user.id, username |-> user.username, roles |-> <<role>>],
                      users)
         IN l
    ELSE users

\* save_user that replaces the roles of the entry by the one role.
save_user_overwriting(users, user, role) ==
    LET l == find_or_append_by_id(
                 [id |-> user.id, username |-> user.username, roles |-> <<>>],
                 users)
    IN [k \in 1..Len(l) |->
           IF l[k].id = user.id THEN [l[k] EXCEPT !.roles = <<role>>] ELSE l[k]]

save_user(users, user, role) ==
    LET l == find_or_append_by_id(
                 [id |-> user.id, username |-> user.username, roles |-> <<>>],
                 users)
        k == CHOOSE k \in 1..Len(l) :
                 /\ l[k].id = user.id
                 /\ \A j \in 1..(k - 1) : l[j].id # user.id
    IN [l EXCEPT ![k].roles = Append(@, role)]

\* User().fetch(id) on the source server.
FetchUser(id) == source.users[id]

\* "for id in ids: save_user(User().fetch(id), role)".
RECURSIVE save_users(_, _, _)
save_users(users, ids, role) ==
    IF Len(ids) = 0 THEN users
    ELSE save_users(save_user(users, FetchUser(ids[1]), role), Tail(ids), role)

\* The objects export_metadata or the image download runs one task for.
BatchObjects(p) ==
    CASE p = "exp_project_meta" -> <<source.project.id>>
      [] p = "exp_ontology_meta" -> <<source.ontology.id>>
      [] p = "exp_terms_meta" -> [k \in 1..Len(source.terms) |-> source.terms[k].id]
      [] p = "exp_img_download" -> [k \in 1..Len(source.images) |-> source.images[k].id]
      [] p = "exp_img_meta" -> [k \in 1..Len(source.images) |-> source.images[k].id]
      [] p = "exp_annots_meta" -> [k \in 1..Len(source.annots) |-> source.annots[k].id]
      [] OTHER -> <<>>

MetadataBatches ==
    {"exp_project_meta", "exp_ontology_meta", "exp_terms_meta", "exp_img_meta",
     "exp_annots_meta"}

\* The position run is at once the batch at position p has returned.
AfterBatch(p) ==
    CASE p = "exp_project_meta" -> "exp_ontology"
      [] p = "exp_ontology_meta" -> "exp_terms"
      [] p = "exp_terms_meta" -> "exp_images"
      [] p = "exp_img_download" -> "exp_img_users"
      [] p = "exp_img_meta" -> "exp_annots"
      [] p = "exp_annots_meta" -> "exp_users"

\* "if enabled: Parallel(...)(... for obj in objects)": the batch starts, or
\* the step goes on without it.
StartBatch(enabled, p) ==
    IF enabled
    THEN /\ pc' = p
         /\ tasks' = [k \in 1..Len(BatchObjects(p)) |-> "pending"]
    ELSE /\ pc' = AfterBatch(p)
         /\ tasks' = NoTasks

\* Whether a fetch of one object from the source server answers: a fetch
\* that fails returns False.
FetchAnswers == IF faults < MaxFaults THEN {TRUE, FALSE} ELSE {TRUE}

\* Exporter.__init__: the project is fetched, the user list is empty.
ExportInit ==
    /\ pc = "exp_init" /\ error = "none"
    /\ exp_users' = <<>>
    /\ \E answers \in FetchAnswers :
          IF answers
          THEN /\ pc' = "exp_run"
               /\ UNCHANGED <<error, faults>>
          ELSE /\ error' = "ValueError"
               /\ faults' = faults + 1
               /\ pc' = pc
    /\ UNCHANGED <<source, flags, target0, runs, prev_mapping, snap, tasks>>
    /\ UNCHANGED ImportLocals

\* run, up to export_project: the directories are made.
ExportRun ==
    /\ pc = "exp_run" /\ error = "none"
    /\ snap' = [snap EXCEPT !.dirs =
                   {"project"} \cup
                   (IF flags.with_metadata \/ flags.with_annotation_metadata
                    THEN {"attached_files"} ELSE {})]
    /\ pc' = "exp_project"
    /\ UNCHANGED <<source, flags, target0, runs, prev_mapping, exp_users>>
    /\ UNCHANGED ImportVars

ExportProject ==
    /\ pc = "exp_project" /\ error = "none"
    /\ snap' = [save_object(snap, "project", FALSE) EXCEPT !.project = source.project]
    /\ exp_users' = save_users(save_users(exp_users, source.admins, "project_manager"),
                               source.members, "project_contributor")
    /\ StartBatch(flags.with_metadata, "exp_project_meta")
    /\ UNCHANGED <<source, flags, target0, runs, prev_mapping, error, faults>>
    /\ UNCHANGED ImportLocals

\* export_ontology: a failed fetch of the ontology leaves False, which
\* save_object does not write and which has no attribute user.
ExportOntology ==
    /\ pc = "exp_ontology" /\ error = "none"
    /\ \E answers \in FetchAnswers :
          IF answers
          THEN /\ snap' = [save_object(snap, "ontology", FALSE)
                             EXCEPT !.ontology = source.ontology]
               /\ exp_users' = save_user(exp_users, FetchUser(source.ontology.user),
                                         "ontology_creator")
               /\ StartBatch(flags.with_metadata, "exp_ontology_meta")
               /\ UNCHANGED <<error, faults>>
          ELSE /\ snap' = save_object(snap, "ontology", TRUE)
               /\ error' = "AttributeError"
               /\ faults' = faults + 1
               /\ UNCHANGED <<exp_users, pc, tasks>>
    /\ UNCHANGED <<source, flags, target0, runs, prev_mapping>>
    /\ UNCHANGED ImportLocals

ExportTerms ==
    /\ pc = "exp_terms" /\ error = "none"
    /\ snap' = [save_object(snap, "term-collection", Len(source.terms) = 0)
                  EXCEPT !.terms = source.terms]
    /\ StartBatch(flags.with_metadata, "exp_terms_meta")
    /\ UNCHANGED <<source, flags, target0, runs, prev_mapping, exp_users, error, faults>>
    /\ UNCHANGED ImportLocals

\* export_images up to the download batch.
ExportImages ==
    /\ pc = "exp_images" /\ error = "none"
    /\ snap' = [save_object(snap, "imageinstance-collection", Len(source.images) = 0)
                  EXCEPT !.images = source.images,
                         !.dirs = IF flags.with_image_download
                                  THEN @ \cup {"images"} ELSE @]
    /\ StartBatch(flags.with_image_download, "exp_img_download")
    /\ UNCHANGED <<source, flags, target0, runs, prev_mapping, exp_users, error, faults>>
    /\ UNCHANGED ImportLocals

\* One task of the download batch: _download_image.  The download writes
\* the file at the path made of the image directory and the file name, or
\* reports a refused request and writes nothing, or raises.
ExportDownloadTask ==
    /\ pc = "exp_img_download" /\ error = "none"
    /\ \E k \in DOMAIN tasks :
          /\ tasks[k] = "pending"
          /\ \E outcome \in {"done"} \cup
                 (IF faults < MaxFaults THEN {"refused", "NetworkError"} ELSE {}) :
                /\ tasks' = [tasks EXCEPT ![k] = outcome]
                /\ faults' = IF outcome = "done" THEN faults ELSE faults + 1
                /\ snap' = IF outcome = "done"
                           THEN [snap EXCEPT !.files =
                                    @ \cup {source.images[k].originalFilename}]
                           ELSE snap
    /\ UNCHANGED <<source, flags, target0, runs, prev_mapping, exp_users, pc, error>>
    /\ UNCHANGED ImportLocals

\* export_images from the image creators on.
ExportImageUsers ==
    /\ pc = "exp_img_users" /\ error = "none"
    /\ LET creators == SeqOfSet({source.images[k].user : k \in 1..Len(source.images)})
           reviewers == SeqOfSet({source.images[k].reviewUser :
                                     k \in 1..Len(source.images)} \ {None})
       IN exp_users' = save_users(save_users(exp_users, creators, "image_creator"),
                                  reviewers, "image_reviewer")
    /\ StartBatch(flags.with_metadata, "exp_img_meta")
    /\ UNCHANGED <<source, flags, target0, runs, prev_mapping, snap, error, faults>>
    /\ UNCHANGED ImportLocals

\* export_annotations, which run calls whatever with_user_annotations says.
ExportAnnotations ==
    /\ pc = "exp_annots" /\ error = "none"
    /\ snap' = [save_object(snap, "user-annotation-collection", Len(source.annots) = 0)
                  EXCEPT !.annots = source.annots]
    /\ LET creators == SeqOfSet({source.annots[k].user : k \in 1..Len(source.annots)})
           term_creators ==
               SeqOfSet(UNION {UNION {Range(source.annots[k].userByTerm[j].user) :
                                         j \in 1..Len(source.annots[k].userByTerm)} :
                                  k \in 1..Len(source.annots)})
       IN exp_users' = save_users(
                           save_users(exp_users, creators, "userannotation_creator"),
                           term_creators, "userannotationterm_creator")
    /\ StartBatch(flags.with_annotation_metadata, "exp_annots_meta")
    /\ UNCHANGED <<source, flags, target0, runs, prev_mapping, error, faults>>
    /\ UNCHANGED ImportLocals

\* The documents _export_metadata writes for one object, by kind.
MetadataOf(obj) == {doc \in source.meta : doc.domainIdent = obj}

\* The calls of _export_metadata in their order; each may raise.
MetadataCalls == <<"property", "attached_file", "download", "description">>

CallNo(call) == CHOOSE k \in 1..Len(MetadataCalls) : MetadataCalls[k] = call

\* The documents written before the call that raises.
WrittenBefore(obj, call) ==
    {doc \in MetadataOf(obj) : CallNo(doc.kind) < CallNo(call)}

HasAttachedFile(obj) == \E doc \in MetadataOf(obj) : doc.kind = "attached_file"

\* One task of a metadata batch: _export_metadata on one object.  It
\* returns ("done"; "refused" when the download of an attached file was
\* refused) or one of its calls raises.
ExportMetadataTask ==
    /\ pc \in MetadataBatches /\ error = "none"
    /\ \E k \in DOMAIN tasks :
          /\ tasks[k] = "pending"
          /\ LET obj == BatchObjects(pc)[k]
             IN \/ /\ tasks' = [tasks EXCEPT ![k] = "done"]
                   /\ snap' = [snap EXCEPT
                         !.meta = @ \cup MetadataOf(obj),
                         !.attached = IF HasAttachedFile(obj)
                                      THEN @ \cup {obj} ELSE @,
                         !.bytes = IF HasAttachedFile(obj)
                                   THEN Put(@, AttachedFilename(obj), obj) ELSE @]
                   /\ UNCHANGED faults
                \/ /\ faults < MaxFaults
                   /\ HasAttachedFile(obj)
                   /\ tasks' = [tasks EXCEPT ![k] = "refused"]
                   /\ snap' = [snap EXCEPT !.meta = @ \cup MetadataOf(obj)]
                   /\ faults' = faults + 1
                \/ /\ faults < MaxFaults
                   /\ \E call \in Range(MetadataCalls) :
                         /\ call = "download" => HasAttachedFile(obj)
                         /\ snap' = [snap EXCEPT
                               !.meta = @ \cup WrittenBefore(obj, call)]
                   /\ tasks' = [tasks EXCEPT ![k] = "NetworkError"]
                   /\ faults' = faults + 1
    /\ UNCHANGED <<source, flags, target0, runs, prev_mapping, exp_users, pc, error>>
    /\ UNCHANGED ImportLocals

\* Parallel(...)(...) returns once every task has returned; an exception of
\* a task is raised again in the export step, and nothing catches it.
ExportJoin ==
    /\ pc \in MetadataBatches \cup {"exp_img_download"} /\ error = "none"
    /\ IF \E k \in DOMAIN tasks : TaskRaised(tasks[k])
       THEN /\ error' = tasks[CHOOSE k \in DOMAIN tasks : TaskRaised(tasks[k])]
            /\ UNCHANGED <<pc, tasks>>
       ELSE /\ AllReturned(tasks)
            /\ pc' = AfterBatch(pc)
            /\ tasks' = NoTasks
            /\ error' = error
    /\ UNCHANGED <<source, flags, target0, runs, prev_mapping, exp_users, snap, faults>>
    /\ UNCHANGED ImportLocals

\* The user names export_users writes under anonymize.
AnonymizedNames == <<"anonymized_user1", "anonymized_user2", "anonymized_user3">>

ExportUsers ==
    /\ pc = "exp_users" /\ error = "none"
    /\ exp_users' = IF flags.anonymize
                    THEN [k \in 1..Len(exp_users) |->
                            [exp_users[k] EXCEPT !.username = AnonymizedNames[k]]]
                    ELSE exp_users
    /\ snap' = [save_object(snap, "user-collection", Len(exp_users) = 0)
                  EXCEPT !.users = exp_users']
    /\ pc' = IF flags.with_image_groups THEN "exp_groups" ELSE "run"
    /\ UNCHANGED <<source, flags, target0, runs, prev_mapping, error, tasks, faults>>
    /\ UNCHANGED ImportLocals

\* export_image_groups, for a project without image groups: the empty
\* collections are not written, the directory of the group files is made.
\* The snapshot then goes to the import.
ExportImageGroups ==
    /\ pc = "exp_groups" /\ error = "none"
    /\ snap' = [snap EXCEPT !.dirs = IF flags.with_image_download
                                     THEN @ \cup {"imagegroups"} ELSE @]
    /\ pc' = "run"
    /\ UNCHANGED <<source, flags, target0, runs, prev_mapping, exp_users, error, tasks, faults>>
    /\ UNCHANGED ImportLocals

ExportNext ==
    \/ ExportInit
    \/ ExportRun
    \/ ExportProject
    \/ ExportOntology
    \/ ExportTerms
    \/ ExportImages
    \/ ExportDownloadTask
    \/ ExportImageUsers
    \/ ExportAnnotations
    \/ ExportMetadataTask
    \/ ExportJoin
    \/ ExportUsers
    \/ ExportImageGroups

\* ------------------------------------------------------------ specification
ImportNext ==
    \/ RunStart
    \/ ImportUser
    \/ OntologyBegin
    \/ OntologyCreate
    \/ OntologyTerm
    \/ OntologyRelation
    \/ OntologyLink
    \/ OntologyRestore
    \/ ImportProject
    \/ ImagesBegin
    \/ ImageSwitch
    \/ ImageWork
    \/ ImageRestore
    \/ Ingest
    \/ PollStep
    \/ PollExit
    \/ FixStep
    \/ AnnotationSwitch
    \/ AnnotationTask
    \/ AnnotationJoin
    \/ AnnotationRestore
    \/ ImportMetadata

Next == ImportNext

\* An import run on any of the snapshots, into any of the targets.
Spec == Init /\ [][Next]_vars

\* The options the exporter is run with.
FlagSets ==
    {DefaultFlags,
     [DefaultFlags EXCEPT !.with_annotation_metadata = TRUE],
     [DefaultFlags EXCEPT !.with_metadata = FALSE],
     [DefaultFlags EXCEPT !.with_image_download = FALSE,
                          !.with_image_groups = FALSE],
     [DefaultFlags EXCEPT !.anonymize = TRUE],
     [DefaultFlags EXCEPT !.with_user_annotations = FALSE]}

InitRT ==
    /\ \E run \in (Sources \X {DefaultFlags}) \cup ({PlainSource} \X FlagSets)
                   \cup {<<AnnotationMetaSource,
                            [DefaultFlags EXCEPT !.with_annotation_metadata = TRUE]>>,
                         <<AttachedSource, DefaultFlags>>} :
          source = run[1] /\ flags = run[2]
    /\ snap = EmptySnap
    /\ target \in Targets
    /\ target0 = target
    /\ runs = 1
    /\ prev_mapping = EmptyMapping
    /\ exp_users = <<>>
    /\ pc = "exp_init"
    /\ error = "none"
    /\ id_mapping = EmptyMapping
    /\ last_puts = <<>>
    /\ super_admin = None
    /\ current_user = target.users[1].id
    /\ fetched = NothingFetched
    /\ i = 1
    /\ resolved = NotResolved
    /\ remote_images_dict = EmptyDict
    /\ count = 0
    /\ n_new_images = NoCountYet
    /\ new_images = NoneCollection
    /\ poll_log = <<>>
    /\ tasks = NoTasks
    /\ faults = 0

NextRT == ExportNext \/ ImportNext

\* An export of any of the source projects, and the import of the snapshot
\* it wrote into any of the targets.
SpecRT == InitRT /\ [][NextRT]_vars

\* The importer is run again on the same snapshot and the same target, once
\* the run before has returned: a new Importer with an empty id_mapping.
Rerun ==
    /\ pc = "done" /\ error = "none"
    /\ runs < MaxRuns
    /\ runs' = runs + 1
    /\ target0' = target
    /\ prev_mapping' = id_mapping
    /\ pc' = "run"
    /\ id_mapping' = EmptyMapping
    /\ last_puts' = <<>>
    /\ super_admin' = None
    /\ fetched' = NothingFetched
    /\ i' = 1
    /\ resolved' = NotResolved
    /\ remote_images_dict' = EmptyDict
    /\ count' = 0
    /\ n_new_images' = NoCountYet
    /\ new_images' = NoneCollection
    /\ poll_log' = <<>>
    /\ tasks' = NoTasks
    /\ faults' = 0
    /\ UNCHANGED <<snap, target, error, current_user, source, flags, exp_users>>

NextTwice == ImportNext \/ Rerun

\* Import runs of one snapshot into one target, one after the other.
SpecTwice == Init /\ [][NextTwice]_vars

\* ================================================================== claims
\* The number of images the polling loop waits for: len(remote_images).
Expected == Len(snap.images)

\* The queries of the polling loop so far, in order.
Queries == SelectSeq(poll_log, LAMBDA e : e.op = "query")

\* The polling loop is running, or has handed over to the fix-up loop.
InPolling == pc \in {"poll", "fix"}

\* Every reviewer of a snapshot image is a user of the snapshot.
ReviewersKnown ==
    \A k \in 1..Len(snap.images) :
        snap.images[k].reviewUser \in {None} \cup {snap.users[u].id : u \in 1..Len(snap.users)}

\* C1: when the observed image count first equals the expected count E >= 1
\* at query k, the polling loop has made exactly k queries, makes no more,
\* and what it hands to the fix-up loop holds exactly E image instances.
C1_ConvergedAfterKQueries ==
    (InPolling /\ Expected >= 1) =>
        /\ count = Len(Queries)
        /\ \A k \in 1..Len(Queries) :
              Queries[k].hit =>
                 /\ k = Len(Queries)
                 /\ k <= AttemptsPerImage * Expected
                 /\ ~new_images.isNone
                 /\ Len(new_images.items) = Expected
        /\ (pc = "fix" /\ n_new_images = Expected) =>
              Queries[Len(Queries)].hit

\* C1 witness: two images expected, the count reached at the third query
\* or later, the fix-up loop about to start.
C1_Witness ==
    /\ pc = "fix" /\ i = 1 /\ error = "none"
    /\ Expected = 2 /\ count >= 3
    /\ Len(new_images.items) = 2

\* C2: when the observed count never equals the expected count E >= 0, the
\* polling loop stops within 5*E queries and the fix-up loop takes over
\* what it yields without an error.
C2_PollingNeverFails ==
    (InPolling /\ n_new_images # Expected /\ ReviewersKnown) =>
        /\ count <= AttemptsPerImage * Expected
        /\ error = "none"

\* C3: no sleep comes before the first query, a sleep comes between every
\* two consecutive queries, and no sleep comes after the query that
\* observes the expected count.
C3_SleepsBetweenQueries ==
    InPolling =>
        /\ Len(poll_log) > 0 => poll_log[1].op = "query"
        /\ \A k \in 1..(Len(poll_log) - 1) :
              ~(poll_log[k].op = "query" /\ poll_log[k + 1].op = "query")
        /\ \A k \in 1..Len(poll_log) :
              (poll_log[k].op = "query" /\ poll_log[k].hit)
                  => k = Len(poll_log)

\* The tasks of the running batch that raised.
RaisedTasks == {a \in DOMAIN tasks : TaskRaised(tasks[a])}

\* The positions of the export run.
ExportPositions ==
    {"exp_init", "exp_run", "exp_project", "exp_project_meta", "exp_ontology",
     "exp_ontology_meta", "exp_terms", "exp_terms_meta", "exp_images",
     "exp_img_download", "exp_img_users", "exp_img_meta", "exp_annots",
     "exp_annots_meta", "exp_users", "exp_groups"}

\* The import run is over: it returned, or an exception ended it.
ImportEnded == pc = "done" \/ (pc \notin ExportPositions /\ error # "none")

\* The target ingested every file it was sent, and the importer matched
\* every image instance of the new project with its snapshot image.
IngestionConverged ==
    /\ target.uploads = <<>>
    /\ \A t \in Range(target.images) : t.project >= 200 => t.origin # None

\* The entities of the project the import made, if it made one.
MadeProjects == SelectSeq(target.projects, LAMBDA p : p.id >= 200)

MadeTerms ==
    SelectSeq(target.terms,
        LAMBDA t : Len(MadeProjects) > 0 /\ t.ontology = MadeProjects[1].ontology)

MadeImages ==
    SelectSeq(target.images,
        LAMBDA t : Len(MadeProjects) > 0 /\ t.project = MadeProjects[1].id)

MadeAnnotations ==
    SelectSeq(target.annots,
        LAMBDA t : Len(MadeProjects) > 0 /\ t.project = MadeProjects[1].id)

\* C4: an export with the default options followed by the import of its
\* snapshot into a target that held nothing but the super-admin, with the
\* image ingestion converged and no call failing, ends with as many terms,
\* images and
\* annotations in the target project as in the source project, and with
\* every user of the snapshot mapped to a user of the target.
C4_RoundTripCounts ==
    (ImportEnded /\ target0 = EmptyTarget /\ flags = DefaultFlags
        /\ faults = 0 /\ IngestionConverged) =>
        /\ Len(MadeTerms) = Len(source.terms)
        /\ Len(MadeImages) = Len(source.images)
        /\ Len(MadeAnnotations) = Len(source.annots)
        /\ \A k \in 1..Len(snap.users) :
              /\ Has(id_mapping, snap.users[k].id)
              /\ \E u \in Range(target.users) : u.id = id_mapping[snap.users[k].id]

\* C5: when exactly one of the two or more annotation tasks of a batch
\* fails, the import run is not aborted (and so the other tasks of the
\* batch still get to run, and the admin is restored).
C5_PartialFailureIsolated ==
    (pc = "ann_batch" /\ Cardinality(DOMAIN tasks) >= 2
        /\ Cardinality(RaisedTasks) = 1) => error = "none"

\* The tasks of the running batch whose item failed: a refused download, or
\* a call that raised.
FailedItems == {k \in DOMAIN tasks : tasks[k] \in {"refused", "NetworkError"}}

\* C6: when the download of one image, of one attached file or the
\* metadata fetch of one object fails during the export, the export run is
\* not aborted.
C6_ExportSkipsFailedItem ==
    (pc \in ExportPositions /\ Cardinality(FailedItems) = 1) => error = "none"

\* C7: once an origin identifier is mapped, no step maps it to another
\* target identifier and no step removes it.
C7_NeverRemaps ==
    [][\A k \in DOMAIN id_mapping :
          Has(id_mapping', k) /\ id_mapping'[k] = id_mapping[k]]_vars

\* C8: a write for an origin identifier that is already mapped to another
\* target identifier ends in an error.
C8_ConflictingPutFails ==
    \A k \in 1..Len(last_puts) :
        (last_puts[k].had /\ last_puts[k].old # last_puts[k].new)
            => error # "none"

\* The snapshot annotation a target annotation was made from.
OriginAnnotation(t) ==
    CHOOSE r \in Range(snap.annots) : r.id = t.origin

\* The snapshot image a fixed target image instance was matched with.
OriginImage(t) ==
    CHOOSE r \in Range(snap.images) : r.id = t.origin

\* The project the run created.
ImportedProject ==
    CHOOSE p \in Range(target.projects) : p.id = id_mapping[snap.project.id]

\* The lookups a failed step makes.
LookupsAt ==
    CASE pc = "ontology" -> {snap.ontology.user}
      [] pc = "ont_terms" -> {snap.terms[i].ontology}
      [] pc = "ont_relations" -> {snap.terms[i].parent, snap.terms[i].id}
      [] pc = "project" -> {snap.project.ontology}
      [] pc = "img_switch" -> {snap.images[i].user}
      [] pc = "fix" -> {snap.images[k].reviewUser : k \in 1..Len(snap.images)}
      [] pc = "annotations" -> {Creators[i].id}
      [] pc = "ann_batch" ->
            UNION {{snap.annots[a].user} \cup Range(snap.annots[a].term) :
                     a \in DOMAIN tasks}
      [] pc = "metadata" -> {MetaList(snap.meta)[i].domainIdent}
      [] OTHER -> {}

\* C9: a reference written to the target is the target identifier recorded
\* for its origin identifier, never None; and a step that looks up an
\* origin identifier that was never mapped ends in KeyError.
C9_LookupsResolve ==
    /\ \A k \in DOMAIN id_mapping : id_mapping[k] # None
    /\ \A t \in Range(target.annots) :
          LET r == OriginAnnotation(t)
          IN /\ ~Missing(id_mapping, {r.project, r.image, r.user} \cup Range(r.term))
             /\ t.project = id_mapping[r.project]
             /\ t.image = id_mapping[r.image]
             /\ t.user = id_mapping[r.user]
             /\ t.term = [k \in 1..Len(r.term) |-> id_mapping[r.term[k]]]
    /\ \A t \in Range(target.images) :
          (t.origin # None /\ OriginImage(t).reviewUser # None) =>
              /\ Has(id_mapping, OriginImage(t).reviewUser)
              /\ t.reviewUser = id_mapping[OriginImage(t).reviewUser]
    /\ Has(id_mapping, snap.ontology.id) => Has(id_mapping, snap.ontology.user)
    /\ Has(id_mapping, snap.project.id) =>
          /\ Has(id_mapping, snap.project.ontology)
          /\ ImportedProject.ontology = id_mapping[snap.project.ontology]
          /\ None \notin Range(ImportedProject.users) \cup Range(ImportedProject.admins)
    /\ \A k \in 1..Len(target.meta) :
          /\ Has(id_mapping, MetaList(snap.meta)[k].domainIdent)
          /\ target.meta[k].domainIdent =
                id_mapping[MetaList(snap.meta)[k].domainIdent]
    /\ (pc = "metadata" /\ error = "none") =>
          \A k \in 1..(i - 1) : k <= Len(target.meta)
    /\ error = "KeyError" => Missing(id_mapping, LookupsAt \ {None})

\* C9 witness: earlier lookups were answered (an annotation was created),
\* and the metadata phase looked up an identifier that was never mapped.
C9_Witness ==
    /\ pc = "metadata" /\ error = "KeyError"
    /\ ~Has(id_mapping, MetaList(snap.meta)[i].domainIdent)
    /\ Len(target.annots) > 0
    /\ Len(target.meta) = i - 1

\* The phase a position of the run belongs to.
PhaseNo(p) ==
    CASE p = "run" -> 0
      [] p = "users" -> 1
      [] p \in {"ontology", "ont_create", "ont_terms", "ont_relations",
                "ont_link", "ont_restore"} -> 2
      [] p = "project" -> 3
      [] p \in {"images", "img_switch", "img_work", "img_restore", "poll", "fix"} -> 4
      [] p \in {"annotations", "ann_batch", "ann_restore"} -> 5
      [] p = "metadata" -> 6
      [] p = "done" -> 7

\* The phase that imports the entity with this origin identifier.
KeyPhase(k) ==
    CASE IsUserId(k) -> 1
      [] IsOntologyId(k) -> 2
      [] IsProjectId(k) -> 3
      [] IsImageId(k) -> 4
      [] OTHER -> 0

\* C10: the phases run one after the other in the order users, ontology and
\* terms, project, images, annotations, metadata; the id mapping is empty
\* when the run starts; and a mapping is added or changed only in the
\* phase of its entity's type.
C10_PhaseOrder ==
    [][/\ PhaseNo(pc') \in {PhaseNo(pc), PhaseNo(pc) + 1}
       /\ (pc = "run" => id_mapping = EmptyMapping)
       /\ \A k \in DOMAIN id_mapping' :
             (~Has(id_mapping, k) \/ id_mapping'[k] # id_mapping[k])
                 => KeyPhase(k) = PhaseNo(pc)]_vars

\* C10 witness: a run that went through every phase and mapped users, the
\* ontology, the project and an image.
C10_Witness ==
    /\ pc = "done" /\ error = "none"
    /\ Has(id_mapping, snap.project.id)
    /\ Len(snap.images) > 0 /\ Has(id_mapping, snap.images[1].id)
    /\ Len(target.annots) > 0 /\ Len(target.meta) > 0


\* The positions at which a unit of work (a phase, a turn of the image loop,
\* a turn of the creator loop) begins, and the end of the run.
UnitStarts ==
    {"users", "ontology", "project", "images", "img_switch", "poll", "fix",
     "annotations", "metadata", "done"}

\* C11: the super-admin is captured once, when the run starts; a switch of
\* the acting user goes from the super-admin to a creator or from a creator
\* back to the super-admin, never from one creator to another; and the
\* super-admin is the acting user whenever a phase, a turn of the image
\* loop or of the creator loop begins, and when the run has ended.
C11_ScopesMatched ==
    [][/\ (super_admin' # super_admin) => pc = "run"
       /\ (current_user' # current_user /\ pc # "run") =>
             (current_user = super_admin \/ current_user' = super_admin)
       /\ (pc' \in UnitStarts) => current_user' = super_admin']_vars

\* C11 witness: a run that ended normally as the super-admin after it had
\* acted as the ontology's creator, as an image's creator and as two
\* annotation creators.
C11_Witness ==
    /\ pc = "done" /\ error = "none"
    /\ current_user = super_admin /\ super_admin = target.users[1].id
    /\ \E o \in Range(target.ontologies) : o.id >= 200 /\ o.user # super_admin
    /\ \E t \in Range(target.images) : t.origin # None /\ t.user # super_admin
    /\ \E a, b \in Range(target.annots) :
          /\ a.creator # b.creator
          /\ super_admin \notin {a.creator, b.creator}


\* The names of the projects the target held when import_project began.
NamesAtStart == {fetched.projects[k].name : k \in 1..Len(fetched.projects)}

\* C12: the project import_project creates is a new one, its name is the
\* name of no project the target held when the phase began, and it is the
\* snapshot's name P (without surrounding whitespace) if P was free, else
\* "P (n)" for the smallest n >= 1 such that "P (n)" was free.
C12_ProjectNamePolicy ==
    Has(id_mapping, snap.project.id) =>
        LET P == Strip(snap.project.name)
            made == ImportedProject
        IN /\ \A k \in 1..Len(fetched.projects) : fetched.projects[k].id # made.id
           /\ made.name \notin NamesAtStart
           /\ P \notin NamesAtStart => made.name = P
           /\ P \in NamesAtStart =>
                 \E n \in 1..(Cardinality(NamesAtStart) + 1) :
                    /\ made.name = Suffixed(P, n)
                    /\ \A m \in 1..(n - 1) : Suffixed(P, m) \in NamesAtStart

\* C12 witness: the second import into a target that held "P": the first
\* made "P (1)", the second makes "P (2)".
C12_Witness ==
    /\ runs = 2 /\ pc = "done" /\ error = "none"
    /\ Has(id_mapping, snap.project.id)
    /\ NamesAtStart = {<<"P">>, Suffixed(<<"P">>, 1)}
    /\ ImportedProject.name = Suffixed(<<"P">>, 2)


\* The origin identifiers of the snapshot's ontology and terms.
OntologyKeys == {snap.ontology.id} \cup {snap.terms[k].id : k \in 1..Len(snap.terms)}

\* C13: an import run that follows a completed import of the same snapshot
\* into the same target creates no ontology, no term and no term relation,
\* and once its ontology phase is over it maps the snapshot's ontology and
\* every snapshot term to what the run before mapped them to.
C13_OntologyImportedOnce ==
    runs >= 2 =>
        /\ target.ontologies = target0.ontologies
        /\ target.terms = target0.terms
        /\ target.relations = target0.relations
        /\ PhaseNo(pc) >= 3 =>
              \A k \in OntologyKeys :
                 /\ Has(id_mapping, k) /\ Has(prev_mapping, k)
                 /\ id_mapping[k] = prev_mapping[k]

\* C13 witness: the ontology phase of the second run is over; the first
\* run had created the ontology under the name "O (1)", the target holding
\* another "O".
C13_Witness ==
    /\ runs = 2 /\ pc = "images" /\ error = "none"
    /\ \E o \in Range(target.ontologies) :
          /\ o.id = id_mapping[snap.ontology.id]
          /\ o.id >= 200
          /\ o.name = Suffixed(<<"O">>, 1)
    /\ \E t \in Range(target.terms) :
          t.id = id_mapping[snap.terms[1].id] /\ t.id >= 200


\* The (name, colour) pairs of a list of terms.
TermPairs(ts) == {<<ts[k].name, ts[k].color>> : k \in 1..Len(ts)}

\* The ontologies the target held when import_ontology began that carry the
\* snapshot ontology's name and exactly the snapshot's (name, colour) pairs.
IdenticalOntologies ==
    {o \in Range(fetched.ontologies) :
        /\ o.name = Strip(snap.ontology.name)
        /\ TermPairs(SelectSeq(fetched.terms, LAMBDA t : t.ontology = o.id))
              = TermPairs(snap.terms)}

\* C14: an ontology the target already held is reused only if it has the
\* snapshot ontology's name and exactly the snapshot's set of (term name,
\* term colour) pairs; and when any of the target's ontologies of that name
\* has that set, one of them is reused.
C14_ReuseOnlyIdentical ==
    Has(id_mapping, snap.ontology.id) =>
        /\ \A o \in Range(fetched.ontologies) :
              o.id = id_mapping[snap.ontology.id] => o \in IdenticalOntologies
        /\ IdenticalOntologies # {} =>
              \E o \in IdenticalOntologies : o.id = id_mapping[snap.ontology.id]


\* The user identifiers the entities of the export refer to.
ReferencedUsers ==
    Range(source.admins) \cup Range(source.members)
    \cup {snap.ontology.user}
    \cup {snap.images[k].user : k \in 1..Len(snap.images)}
    \cup ({snap.images[k].reviewUser : k \in 1..Len(snap.images)} \ {None})
    \cup {snap.annots[k].user : k \in 1..Len(snap.annots)}
    \cup UNION {UNION {Range(snap.annots[k].userByTerm[j].user) :
                          j \in 1..Len(snap.annots[k].userByTerm)} :
                   k \in 1..Len(snap.annots)}

\* The export run returned.
ExportReturned == source # NoSource /\ pc \notin ExportPositions

\* C15: after an export run, the user document is written and holds a user
\* for every user identifier the exported entities refer to.
C15_ExportedUsersClosed ==
    ExportReturned =>
        /\ "user-collection" \in snap.docs
        /\ ReferencedUsers \subseteq {snap.users[k].id : k \in 1..Len(snap.users)}

\* C15 witness: an export has returned whose user document holds a user who
\* is referred to as reviewer and term creator only.
C15_Witness ==
    /\ ExportReturned /\ pc = "run"
    /\ 3 \in ReferencedUsers \ (Range(source.admins) \cup Range(source.members))
    /\ \E k \in 1..Len(snap.users) :
          /\ snap.users[k].id = 3
          /\ snap.users[k].roles = <<"image_reviewer", "userannotationterm_creator">>


\* C16: an export run configured without user annotations fetches no
\* annotation and writes no user-annotation document; one configured with
\* them writes the document of the project's annotations.
C16_AnnotationFlagHonoured ==
    ExportReturned =>
        /\ ~flags.with_user_annotations =>
              /\ "user-annotation-collection" \notin snap.docs
              /\ snap.annots = <<>>
        /\ (flags.with_user_annotations /\ Len(source.annots) > 0) =>
              /\ "user-annotation-collection" \in snap.docs
              /\ snap.annots = source.annots


\* The export was aborted because the project or its ontology could not be
\* fetched.
FatalSetup ==
    \/ pc = "exp_init" /\ error = "ValueError"
    \/ pc = "exp_ontology" /\ error = "AttributeError"

\* C17: when the export is aborted because the project or its ontology
\* could not be fetched, the snapshot holds no directory and no document.
C17_FatalSetupLeavesNothing ==
    FatalSetup =>
        /\ snap.dirs = {}
        /\ snap.docs = {}
        /\ snap.meta = {}


\* The origin identifier k is mapped to the identifier of one of these
\* entities of the target.
RecordedAmong(k, entities) ==
    Has(id_mapping, k) /\ \E e \in Range(entities) : e.id = id_mapping[k]

\* C18: once a phase has finished, every entity it created or linked on
\* the target is recorded in id_mapping under its origin identifier: the
\* users, the ontology and its terms, the project, the image instances and
\* the annotations.
C18_EveryImportRecords ==
    /\ PhaseNo(pc) >= 2 =>
          \A k \in 1..Len(snap.users) : RecordedAmong(snap.users[k].id, target.users)
    /\ PhaseNo(pc) >= 3 =>
          /\ RecordedAmong(snap.ontology.id, target.ontologies)
          /\ \A k \in 1..Len(snap.terms) : RecordedAmong(snap.terms[k].id, target.terms)
    /\ PhaseNo(pc) >= 4 => RecordedAmong(snap.project.id, target.projects)
    /\ PhaseNo(pc) >= 5 =>
          \A t \in Range(target.images) :
             t.origin # None => (Has(id_mapping, t.origin) /\ id_mapping[t.origin] = t.id)
    /\ PhaseNo(pc) >= 6 =>
          \A t \in Range(target.annots) :
             Has(id_mapping, t.origin) /\ id_mapping[t.origin] = t.id


\* The entity of the snapshot with this origin identifier was imported by
\* the phases before import_metadata.
EntityImported(k) ==
    \/ /\ k \in {snap.project.id} \cup OntologyKeys
       /\ PhaseNo(pc) >= 4
    \/ \E t \in Range(target.images) : t.origin = k
    \/ \E t \in Range(target.annots) : t.origin = k

\* C19: when every metadata document of the snapshot describes an entity
\* that the earlier phases imported, the metadata phase ends in no
\* unresolved reference.
C19_MetadataResolves ==
    (pc = "metadata" /\ \A doc \in snap.meta : EntityImported(doc.domainIdent))
        => error # "KeyError"


\* The image instances of the target that the fix-up loop has matched.
FixedImages == {t \in Range(target.images) : t.origin # None}

\* C20: every image instance the fix-up loop has handled is matched with
\* one remote image of its file name (as the importer keys it), no remote
\* image is matched with two image instances, a remote image is mapped only
\* if an image instance was matched with it, and the fix-up loop raises no
\* error, also when fewer image instances arrived than were expected.
C20_ArrivedImagesMatched ==
    /\ \A t \in FixedImages :
          \E r \in Range(snap.images) :
             /\ r.id = t.origin
             /\ AsciiIgnore(r.originalFilename) = t.originalFilename
             /\ Has(id_mapping, r.id) /\ id_mapping[r.id] = t.id
    /\ \A t1, t2 \in FixedImages : t1.origin = t2.origin => t1 = t2
    /\ \A k \in 1..Len(snap.images) :
          Has(id_mapping, snap.images[k].id) =>
             \E t \in FixedImages : t.origin = snap.images[k].id
    /\ (pc = "fix" /\ error = "none") =>
          \A k \in 1..(i - 1) :
             TargetImage(target, new_images.items[k]) \in FixedImages
    /\ (pc = "fix" /\ ReviewersKnown) => error = "none"

\* C20 witness: two images were expected and one arrived; the fix-up loop
\* matched it and ended, and the other remote image is unmapped.
C20_Witness ==
    /\ pc = "annotations" /\ error = "none"
    /\ Len(snap.images) = 2
    /\ Cardinality(FixedImages) = 1
    /\ Cardinality({k \in 1..2 : Has(id_mapping, snap.images[k].id)}) = 1


\* The project or the image of this remote annotation is not in id_mapping.
Unresolvable(a) ==
    ~Has(id_mapping, snap.annots[a].project) \/ ~Has(id_mapping, snap.annots[a].image)

\* The annotations the target holds for this remote annotation.
CreatedFor(a) == {t \in Range(target.annots) : t.origin = snap.annots[a].id}

\* C21: an annotation whose project or image is not in id_mapping is not
\* created and its task returns without an error; an error of a batch is
\* never that of such an annotation; and once the annotation phase is over,
\* every other annotation has been created once, those of the same creator
\* and those of later creators.
C21_UnresolvableSkipped ==
    /\ \A a \in 1..Len(snap.annots) :
          /\ Unresolvable(a) => CreatedFor(a) = {}
          /\ Cardinality(CreatedFor(a)) <= 1
    /\ pc \in {"ann_batch", "ann_restore"} =>
          \A a \in DOMAIN tasks :
             /\ tasks[a] = "skipped" <=> (tasks[a] # "pending" /\ Unresolvable(a))
             /\ TaskRaised(tasks[a]) => ~Unresolvable(a)
    /\ (PhaseNo(pc) >= 6 /\ runs = 1) =>
          \A a \in 1..Len(snap.annots) :
             (~Unresolvable(a)
                 /\ InList("userannotation_creator",
                       (CHOOSE u \in Range(snap.users) : u.id = snap.annots[a].user).roles))
                => Cardinality(CreatedFor(a)) = 1

\* C21 witness: the annotation phase is over without an error; the image of
\* one annotation never arrived and the annotation was skipped, while an
\* annotation of the same or of a later creator was created.
C21_Witness ==
    /\ pc = "metadata" /\ error = "none" /\ i = 1
    /\ \E a, b \in 1..Len(snap.annots) :
          /\ Unresolvable(a) /\ Has(id_mapping, snap.annots[a].project)
          /\ CreatedFor(a) = {}
          /\ a < b /\ CreatedFor(b) # {}


\* C22: every annotation of the target was saved while the acting user was
\* the target user mapped from its creator; while a batch runs, the acting
\* user is the batch's creator and every task is an annotation of that
\* creator; and the acting user is switched only when no task of the batch
\* is still to return.
C22_CreatedUnderAuthor ==
    /\ [](/\ \A t \in Range(target.annots) :
                /\ Has(id_mapping, OriginAnnotation(t).user)
                /\ t.creator = id_mapping[OriginAnnotation(t).user]
          /\ (pc = "ann_batch" /\ DOMAIN tasks # {}) =>
                /\ current_user = id_mapping[Creators[i].id]
                /\ \A a \in DOMAIN tasks : snap.annots[a].user = Creators[i].id)
    /\ [][(current_user' # current_user) =>
             \A a \in DOMAIN tasks : tasks[a] # "pending"]_vars

\* C22 witness: the batch of the second creator has returned, both creators
\* have their annotation on the target, each saved under its own creator.
C22_Witness ==
    /\ pc = "ann_restore" /\ i = 2 /\ error = "none"
    /\ \E t1, t2 \in Range(target.annots) :
          /\ t1.creator # t2.creator
          /\ t1.creator = id_mapping[OriginAnnotation(t1).user]
          /\ t2.creator = id_mapping[OriginAnnotation(t2).user]
          /\ t2.creator = current_user


\* The positions inside an impersonation scope: between a switch to a
\* creator and the switch back.
InScope ==
    {"ont_create", "ont_terms", "ont_relations", "ont_link", "img_work",
     "ann_batch"}

\* C23: when the work inside an impersonation scope has failed and control
\* has left the scope, the acting user is the super-admin again.
C23_RestoredOnFailure ==
    (pc \in InScope /\ error # "none") => current_user = super_admin


\* The names of the ontologies the target held when import_ontology began.
OntologyNamesAtStart ==
    {fetched.ontologies[k].name : k \in 1..Len(fetched.ontologies)}

\* The snapshot's ontology is mapped to an ontology that import_ontology
\* created.
OntologyCreated ==
    /\ Has(id_mapping, snap.ontology.id)
    /\ \A k \in 1..Len(fetched.ontologies) :
          fetched.ontologies[k].id # id_mapping[snap.ontology.id]

\* C24: an ontology that import_ontology creates carries the name of no
\* ontology the target held when the phase began: the snapshot's name X
\* (without surrounding whitespace) if X was free, else "X (n)" for the
\* smallest n >= 1 such that "X (n)" was free.
C24_NewOntologyName ==
    OntologyCreated =>
        LET X == Strip(snap.ontology.name)
            made == CHOOSE o \in Range(target.ontologies) :
                        o.id = id_mapping[snap.ontology.id]
        IN /\ made.name \notin OntologyNamesAtStart
           /\ X \notin OntologyNamesAtStart => made.name = X
           /\ X \in OntologyNamesAtStart =>
                 \E n \in 1..(Cardinality(OntologyNamesAtStart) + 1) :
                    /\ made.name = Suffixed(X, n)
                    /\ \A m \in 1..(n - 1) : Suffixed(X, m) \in OntologyNamesAtStart

\* C24 witness: the target held an "O" and an "O (1)" of other terms, and
\* the ontology was created as "O (2)".
C24_Witness ==
    /\ OntologyCreated /\ pc = "ont_terms" /\ error = "none"
    /\ OntologyNamesAtStart = {<<"O">>, Suffixed(<<"O">>, 1)}
    /\ \E o \in Range(target.ontologies) :
          o.id = id_mapping[snap.ontology.id] /\ o.name = Suffixed(<<"O">>, 2)


\* The term relations the import has created so far.
MadeRelations == target.relations \ target0.relations

\* Every term of the snapshot has been created on the target and mapped.
AllTermsMade ==
    \A k \in 1..Len(snap.terms) :
       /\ Has(id_mapping, snap.terms[k].id)
       /\ \E t \in Range(target.terms) :
             /\ t.id = id_mapping[snap.terms[k].id]
             /\ t.id \notin {u.id : u \in Range(target0.terms)}

\* The relation that replays the parent of the k-th snapshot term.
Replayed(k) ==
    <<Get(id_mapping, snap.terms[k].parent), Get(id_mapping, snap.terms[k].id)>>

\* C25: when import_ontology creates the ontology, a term relation is
\* created only once every snapshot term has been created and mapped; each
\* relation created is the (parent, child) pair of a snapshot term with a
\* non-null parent, both rewritten through id_mapping; once the relation
\* loop is over there is one for every such term, and none for a term
\* without a parent.
C25_RelationsAfterTerms ==
    /\ [](OntologyCreated =>
            /\ MadeRelations # {} => AllTermsMade
            /\ \A r \in MadeRelations :
                  \E k \in 1..Len(snap.terms) :
                     snap.terms[k].parent # None /\ r = Replayed(k)
            /\ (error = "none" /\ pc \notin {"ont_create", "ont_terms", "ont_relations"}) =>
                  /\ \A k \in 1..Len(snap.terms) :
                        snap.terms[k].parent # None => Replayed(k) \in MadeRelations
                  /\ Cardinality(MadeRelations) =
                        Cardinality({k \in 1..Len(snap.terms) : snap.terms[k].parent # None}))
    /\ [][target'.relations # target.relations => (pc = "ont_relations" /\ AllTermsMade)]_vars

\* C25 witness: the ontology was created with its two terms, the relation
\* loop is over, and the one relation made is that of the second term, whose
\* parent is the first; the first term, without a parent, is the child in
\* none.
C25_Witness ==
    /\ OntologyCreated /\ pc = "ont_restore" /\ error = "none"
    /\ snap.terms[1].parent = None /\ snap.terms[2].parent = snap.terms[1].id
    /\ MadeRelations = {<<id_mapping[snap.terms[1].id], id_mapping[snap.terms[2].id]>>}


\* The users of the target at import start that carry this username.
Namesakes(name) == {t \in Range(target0.users) : t.username = name}

\* The users the import has created with this username.
CreatedUsers(name) ==
    {target.users[k] : k \in {j \in (Len(target0.users) + 1)..Len(target.users) :
                                 target.users[j].username = name}}

\* The user loop has dealt with the k-th user of the snapshot.
UserDone(k) == PhaseNo(pc) >= 2 \/ (pc = "users" /\ k < i)

\* C26: a snapshot user whose username a target user carried at import
\* start is mapped to that user and none is created for it; any other
\* snapshot user has exactly one user created and is mapped to it; the users
\* the target had are left as they were; and once the users phase is over
\* every snapshot user id is mapped.
C26_UserResolve ==
    /\ \A k \in 1..Len(target0.users) :
          k <= Len(target.users) /\ target.users[k] = target0.users[k]
    /\ \A k \in 1..Len(snap.users) :
          LET u == snap.users[k]
          IN IF UserDone(k)
             THEN /\ Has(id_mapping, u.id)
                  /\ IF Namesakes(u.username) # {}
                     THEN /\ CreatedUsers(u.username) = {}
                          /\ \E t \in Namesakes(u.username) : id_mapping[u.id] = t.id
                     ELSE /\ Cardinality(CreatedUsers(u.username)) = 1
                          /\ \E t \in CreatedUsers(u.username) : id_mapping[u.id] = t.id
             ELSE CreatedUsers(u.username) = {}
    /\ Len(target.users) - Len(target0.users) =
          Cardinality({k \in 1..Len(snap.users) :
                          UserDone(k) /\ Namesakes(snap.users[k].username) = {}})

\* C26 witness: the users phase is over; one snapshot user was found on the
\* target by its username, another was created.
C26_Witness ==
    /\ pc = "ontology" /\ error = "none"
    /\ \E k, l \in 1..Len(snap.users) :
          /\ Namesakes(snap.users[k].username) # {}
          /\ Namesakes(snap.users[l].username) = {}
          /\ id_mapping[snap.users[k].id] \in {t.id : t \in Range(target0.users)}
          /\ id_mapping[snap.users[l].id] \notin {t.id : t \in Range(target0.users)}


\* The abstract images of the target that have the file name and the
\* dimensions of the remote image.
IdenticalAbstracts(remote_image) ==
    {ai \in Range(target.abstracts) :
        /\ ai.originalFilename = remote_image.originalFilename
        /\ ai.dims = remote_image.dims}

\* This step adds to the project one instance of one of these abstract
\* images and uploads nothing.
LinkedOnly(abstracts) ==
    /\ target'.uploads = target.uploads
    /\ Len(target'.images) = Len(target.images) + 1
    /\ LET made == target'.images[Len(target'.images)]
       IN /\ made.baseImage \in {ai.id : ai \in abstracts}
          /\ made.project = Get(id_mapping, snap.project.id)
          /\ made.user = current_user

\* This step uploads one file for the project and links nothing.
UploadedOnly ==
    /\ target'.images = target.images
    /\ Len(target'.uploads) = Len(target.uploads) + 1
    /\ LET sent == target'.uploads[Len(target'.uploads)]
       IN /\ sent.project = Get(id_mapping, snap.project.id)
          /\ sent.user = current_user

\* C27: for every remote image the image loop reaches, exactly one of two
\* things is done, under the target user of the image's creator: an abstract
\* image of the target with the same (original file name, width, height)
\* is linked into the new project and nothing is uploaded, or, when there is
\* none, the local file is uploaded; the loop then goes on with the switch
\* back, without waiting for the upload to be ingested.
C27_LinkOrUpload ==
    [][pc = "img_work" =>
          LET remote_image == snap.images[i]
          IN /\ current_user = Get(id_mapping, remote_image.user)
             /\ IF IdenticalAbstracts(remote_image) # {}
                THEN LinkedOnly(IdenticalAbstracts(remote_image))
                ELSE UploadedOnly
             /\ pc' = "img_restore" /\ error' = "none"
             /\ target'.abstracts = target.abstracts]_vars


\* The role tags the export steps record for a user identifier of the
\* source project.
RecordedRoles(u) ==
    (IF InList(u, source.admins) THEN {"project_manager"} ELSE {})
    \cup (IF InList(u, source.members) THEN {"project_contributor"} ELSE {})
    \cup (IF u = source.ontology.user THEN {"ontology_creator"} ELSE {})
    \cup (IF \E k \in 1..Len(source.images) : source.images[k].user = u
          THEN {"image_creator"} ELSE {})
    \cup (IF \E k \in 1..Len(source.images) : source.images[k].reviewUser = u
          THEN {"image_reviewer"} ELSE {})
    \cup (IF \E k \in 1..Len(source.annots) : source.annots[k].user = u
          THEN {"userannotation_creator"} ELSE {})
    \cup (IF \E k \in 1..Len(source.annots) :
                \E j \in 1..Len(source.annots[k].userByTerm) :
                   InList(u, source.annots[k].userByTerm[j].user)
          THEN {"userannotationterm_creator"} ELSE {})

\* The export has written the user document.
UsersWritten == source # NoSource /\ "user-collection" \in snap.docs

\* C28: the user document is written after the project, ontology, image
\* and annotation steps, and no role is recorded once it is written; it
\* holds every user identifier once, with exactly the role tags those steps
\* recorded for it, each tag once.
C28_RolesAccrete ==
    /\ [](UsersWritten =>
            /\ pc \notin (ExportPositions \ {"exp_groups"})
            /\ \A k, l \in 1..Len(snap.users) :
                  snap.users[k].id = snap.users[l].id => k = l
            /\ \A k \in 1..Len(snap.users) :
                  /\ Range(snap.users[k].roles) = RecordedRoles(snap.users[k].id)
                  /\ Len(snap.users[k].roles) = Cardinality(RecordedRoles(snap.users[k].id))
            /\ \A u \in UserIds :
                  RecordedRoles(u) # {} =>
                     \E k \in 1..Len(snap.users) : snap.users[k].id = u)
    /\ [][UsersWritten => (exp_users' = exp_users /\ snap'.users = snap.users)]_vars

\* C28 witness: the export returned with a user document in which one user
\* carries four roles, recorded by three steps, and another user is listed
\* too.
C28_Witness ==
    /\ UsersWritten /\ pc = "run" /\ error = "none"
    /\ \E k, l \in 1..Len(snap.users) :
          /\ k # l
          /\ Len(snap.users[k].roles) >= 4
          /\ {"project_manager", "project_contributor", "image_creator"}
                \subseteq Range(snap.users[k].roles)
          /\ Len(snap.users[l].roles) >= 1


\* The entries of the id mapping a task of the batch reads.
KeysRead(a) ==
    {snap.annots[a].project, snap.annots[a].image, snap.annots[a].user}
    \cup Range(snap.annots[a].term)

\* C29: while a batch of annotation tasks runs, no step writes the id
\* mapping: no two tasks write an entry for one origin identifier, and the
\* entries a task reads are written by no other task of the batch.
C29_NoMappingWriteInBatch ==
    /\ [][pc = "ann_batch" => id_mapping' = id_mapping]_vars
    /\ [](pc = "ann_batch" => last_puts = <<>>)

\* C29 witness: a batch of two tasks that read the same entries of the
\* mapping, one of them returned after creating its annotation, the other
\* not yet.
C29_Witness ==
    /\ pc = "ann_batch" /\ error = "none"
    /\ \E a, b \in DOMAIN tasks :
          /\ a # b
          /\ tasks[a] = "done" /\ tasks[b] = "pending"
          /\ KeysRead(a) \cap KeysRead(b) # {}
          /\ KeysRead(a) \cup KeysRead(b) \subseteq DOMAIN id_mapping
          /\ CreatedFor(a) # {}


\* The attached-file entries of the snapshot whose file was downloaded.
DownloadedAttachments ==
    {doc \in snap.meta : doc.kind = "attached_file" /\ doc.domainIdent \in snap.attached}

\* The objects of the running metadata batch that have an attached file.
AttachingTasks ==
    {k \in DOMAIN tasks : HasAttachedFile(BatchObjects(pc)[k])}

\* C30: the file of every attached-file entry the export has written and
\* downloaded holds the bytes of that attachment, and no two tasks of one
\* metadata batch write the same file.
C30_AttachedBytesOwn ==
    source # NoSource =>
       /\ \A doc \in DownloadedAttachments :
             /\ Has(snap.bytes, AttachedFilename(doc.domainIdent))
             /\ snap.bytes[AttachedFilename(doc.domainIdent)] = doc.domainIdent
       /\ pc \in MetadataBatches =>
             \A k, l \in AttachingTasks :
                k # l => AttachedFilename(BatchObjects(pc)[k])
                            # AttachedFilename(BatchObjects(pc)[l])


\* The remote image instances (by position) that id_mapping maps.
MappedImages == {k \in 1..Len(snap.images) : Has(id_mapping, snap.images[k].id)}

\* C31: no two distinct remote image instances are mapped to the same
\* target image instance, and a remote image instance that is mapped is
\* mapped to an image instance of the new project whose original file name
\* is the remote image's original file name without its non-ASCII
\* characters.
C31_ImageMappingInjective ==
    /\ \A j, k \in MappedImages :
          snap.images[j].id # snap.images[k].id =>
             id_mapping[snap.images[j].id] # id_mapping[snap.images[k].id]
    /\ \A k \in MappedImages :
          \E t \in Range(target.images) :
             /\ t.id = id_mapping[snap.images[k].id]
             /\ Has(id_mapping, snap.project.id)
             /\ t.project = id_mapping[snap.project.id]
             /\ t.originalFilename = AsciiIgnore(snap.images[k].originalFilename)

\* C31 witness: the fix-up loop is over; two remote image instances are
\* mapped, to two image instances, and the file name of one of them lost a
\* non-ASCII character.
C31_Witness ==
    /\ pc = "annotations" /\ error = "none"
    /\ \E j, k \in MappedImages :
          /\ j # k
          /\ id_mapping[snap.images[j].id] # id_mapping[snap.images[k].id]
          /\ AsciiIgnore(snap.images[k].originalFilename)
                # snap.images[k].originalFilename

====
